---- MODULE Spec2Model ----
(***************************************************************************)
(* Metrics aggregation engine of revistaslatam:                            *)
(*   src/src/performance_metrics.py   MetricsAccumulator and the chunked   *)
(*                                     scan process_works_in_chunks         *)
(*   src/pipeline/transform_metrics.py the in-memory aggregator, the       *)
(*                                     incremental cache and main           *)
(*   src/pipeline/process_trajectories.py  smoothing of the annual series  *)
(*                                     and the global and local maps        *)
(*                                                                         *)
(* Numbers.  FWCI cells are integers in hundredths (50 is 0.5), percentile *)
(* cells are whole percentiles.  A MetricsRecord of the accumulator holds  *)
(* its rounded fields in hundredths (round(x, 2)), a record of the         *)
(* in-memory aggregator in millionths (round(x, 6)).  All sums are exact.  *)
(***************************************************************************)
EXTENDS Integers, Sequences, FiniteSets, TLC

VARIABLES
    \* ---- accumulator / scan -------------------------------------------
    mode,        \* "direct": a caller drives add_batch/get_metrics itself;
                 \* "scan": process_works_in_chunks drives the accumulator
    schema,      \* the column set of the article DataFrame(s)
    acc,         \* the MetricsAccumulator instance (its fields)
    fed,         \* history: how many rows of each kind add_batch has received
    last,        \* the record returned by the latest get_metrics call
    calls,       \* get_metrics calls since the latest add_batch
    dfrec,       \* the record returned by calculate_performance_metrics_from_df
    table,       \* scan: the works file, a sequence of row indices
    chunk_size,  \* scan: the chunk_size argument
    filter_func, \* scan: the filter_func argument
    pos,         \* scan: number of rows already read by iter_batches
    scan_error,  \* scan: an exception has left process_works_in_chunks
    \* ---- input tables and cache directory ------------------------------
    journals,    \* the venue file: the rows of VenueRows it holds
    works,       \* the article file: the rows of ArticleRows it holds
    present,     \* which of the two input files exist
    cache,       \* the cache directory: file name -> table, or None
    \* ---- one run of transform_metrics.main ------------------------------
    pc,          \* the position of main; "idle" when no run is in progress
    force,       \* args.force
    years,       \* <<start_year, end_year>>
    level,       \* the level main is working on: "country" or "journal"
    items,       \* countries / journal_ids of that level
    existing,    \* the three tables load_existing_metrics returned
    pending,     \* countries_to_process / journals_to_process
    offset,      \* process_in_chunks: the loop variable i
    pool,        \* process_in_chunks: the chunk the live Pool is mapping, or None
    results,     \* process_in_chunks: all_results
    lists,       \* the annual, period and recent lists of the collection loop
    exit,        \* how the latest run ended: "0", "1", "exception" (the
                 \* ValueError of the collection loop or of an empty article
                 \* file), "worker_error", "killed"; "none" before
    \* ---- history ---------------------------------------------------------
    runs,        \* runs started so far
    prevPlain,   \* the previous run was made without --force
    changed,     \* the input tables changed since the previous run ended
    fault,       \* the fault injected so far: "none", "kill" or "raise"
    failed,      \* the entities whose worker raised
    \* ---- one call of a per-entity function --------------------------------
    call,        \* the function called and its entity argument, or None
    ret,         \* the tuple it returned
    unreadable,  \* the cache files that exist but cannot be read
    \* ---- process_in_chunks: the loop over the chunks -----------------------
    desc,        \* the desc argument: "countries" or "journals"
    total_items, \* len(items)
    chunk_i,     \* the loop variable i
    chunk_num,   \* the chunks processed so far
    \* ---- one Pool of process_in_chunks -------------------------------------
    pool_func,   \* the worker function the Pool maps
    initargs,    \* <<start_year, end_year>> handed to init_worker
    procs,       \* the worker processes: what each has loaded and served
    tasks,       \* the items of the chunk not yet handed to a worker
    map_results, \* the results returned so far, each with its item and worker
    \* ---- process_trajectories.main ----------------------------------------
    traj_in,     \* the annual tables and the venue metadata file it reads
    tpc,         \* the position of main
    raw_data,    \* trajectory_data_raw
    smoothed,    \* trajectory_data_smoothed (window 3)
    smoothed_w5, \* trajectory_data_smoothed_w5 (window 5)
    map_countries,       \* MAP_COUNTRIES_FILE, or None
    map_journals,        \* MAP_JOURNALS_FILE, or None
    todo,                \* the countries the local-map loop has still to visit
    all_journal_coords,  \* the list the local-map loop appends to
    projected            \* history: the map contexts handed to run_umap_projection

accVars == <<mode, schema, acc, fed, last, calls, dfrec, table, chunk_size, filter_func, pos,
             scan_error>>

inputVars == <<journals, works, present>>

runVars == <<pc, force, years, level, items, existing, pending, offset, pool, results,
             lists, exit>>

histVars == <<runs, prevPlain, changed, fault, failed>>

pipeVars == <<inputVars, cache, runVars, histVars>>

workerVars == <<call, ret, unreadable>>

chunkVars == <<desc, total_items, chunk_i, chunk_num>>

poolVars == <<pool_func, initargs, procs, tasks, map_results>>

trajVars == <<traj_in, tpc, raw_data, smoothed, smoothed_w5, map_countries, map_journals,
              todo, all_journal_coords, projected>>

auxVars == <<workerVars, trajVars, chunkVars, poolVars>>

vars == <<accVars, pipeVars, auxVars>>

(***************************************************************************)
(* Bounds                                                                  *)
(***************************************************************************)
MaxDocs  == 6    \* rows a direct caller feeds to one accumulator
MaxBatch == 2    \* rows of one add_batch call of a direct caller
MaxTable == 3    \* rows of the works file of a scan
MaxChunk == 3    \* largest chunk_size of a scan
MaxCalls == 2    \* consecutive get_metrics calls
MaxRuns  == 3    \* runs of transform_metrics.main
MaxYears == 5    \* annual rows of one entity in the tables of process_trajectories

(***************************************************************************)
(* Cells and rows                                                          *)
(***************************************************************************)
NaN        == -1   \* a missing cell (None / NaN)
NonNumeric == -2   \* a cell holding a string that is not a number
Undefined  == -3   \* the result of a division by zero (nan / ZeroDivisionError)

NoRecord == [none |-> TRUE]

OAStatuses == {"gold", "diamond", "green", "hybrid", "bronze", "closed"}

AllColumns == {"journal_id", "publication_year", "fwci", "citation_normalized_percentile",
               "is_in_top_10_percent", "is_in_top_1_percent", "oa_status"}

\* The column sets of the article tables the functions are run on.
DirectSchemas == {AllColumns,
                  AllColumns \ {"oa_status"},
                  AllColumns \ {"fwci", "citation_normalized_percentile"}}

ScanSchemas == DirectSchemas \cup {(AllColumns \ {"oa_status"}) \cup {"open_access"}}

Row(j, y, f, p, t10, t1, oa) ==
    [journal_id |-> j, publication_year |-> y, fwci |-> f,
     citation_normalized_percentile |-> p,
     is_in_top_10_percent |-> t10, is_in_top_1_percent |-> t1, oa_status |-> oa]

\* The article rows the tables are made of.  Rows 1..3 are the three rows of
\* venue V1 in 2020 of Scenario A; row 4 has every cell missing; row 5 has a
\* non-numeric FWCI; row 6 has an OA status outside the vocabulary.
ArticleRows == <<
    Row("V1", 2020,  50,        10,         0,   0,   "closed"),
    Row("V1", 2020, 150,        90,         1,   0,   "gold"),
    Row("V1", 2020, 200,        99,         1,   1,   "gold"),
    Row("V1", 2021, NaN,        NaN,        NaN, NaN, "null"),
    Row("V2", 2021, NonNumeric, 50,         0,   0,   "green"),
    Row("V2", 2020, 100,        NonNumeric, 1,   0,   "other"),
    Row("V2", 2021, 100,        50,         0,   0,   "diamond"),
    Row("V2", 2020, 250,        NaN,        NaN, 1,   "hybrid"),
    Row("V1", 2021, NaN,        100,        1,   1,   "bronze") >>

Kinds == DOMAIN ArticleRows

\* The rows a direct caller of add_batch draws its batches from: Scenario A,
\* the row without values, the row with a non-numeric FWCI.
DirectKinds == 1..5

\* All sequences over S of length at most n.
SeqUpTo(S, n) == UNION {[1..k -> S] : k \in 0..n}

\* A DataFrame: a column set and a sequence of rows.
DataFrame(cols, idx) == [columns |-> cols, rows |-> [i \in DOMAIN idx |-> ArticleRows[idx[i]]]]

len(df) == Len(df.rows)

(***************************************************************************)
(* pandas / Python primitives                                              *)
(***************************************************************************)
\* pd.to_numeric(x, errors='coerce'): a non-numeric cell becomes NaN.
to_numeric(x) == IF x = NonNumeric THEN NaN ELSE x

\* Series.fillna(d)
fillna(x, d) == IF x = NaN THEN d ELSE x

\* Series.astype(bool) after fillna(False)
astype_bool(x) == IF x = 0 THEN 0 ELSE 1

RECURSIVE SumSeq(_)
SumSeq(s) == IF s = <<>> THEN 0 ELSE Head(s) + SumSeq(Tail(s))

\* Series.value_counts().get(v, 0): NaN cells are never counted.
value_counts(df, col, v) == Cardinality({i \in DOMAIN df.rows : df.rows[i][col] = v})

\* round(num / den, d) on exact values, as an integer in units of 10^-d once
\* num carries the factor 10^d: nearest integer, ties to even.
RoundDiv(num, den) ==
    LET q == num \div den
        r == num % den
    IN  IF 2 * r < den THEN q
        ELSE IF 2 * r > den THEN q + 1
        ELSE IF q % 2 = 0 THEN q ELSE q + 1

\* a / b followed by round: undefined when b = 0.
Divide(num, den) == IF den = 0 THEN Undefined ELSE RoundDiv(num, den)

(***************************************************************************)
(* MetricsAccumulator                                                      *)
(***************************************************************************)
reset == [count |-> 0, fwci_sum |-> 0, percentile_sum |-> 0,
          top_10_count |-> 0, top_1_count |-> 0,
          oa_counts |-> [s \in OAStatuses |-> 0]]

FwciCell(r)  == fillna(to_numeric(r.fwci), 0)
PctCell(r)   == fillna(to_numeric(r.citation_normalized_percentile), 0)
Top10Cell(r) == astype_bool(fillna(r.is_in_top_10_percent, 0))
Top1Cell(r)  == astype_bool(fillna(r.is_in_top_1_percent, 0))

\* Series.sum() of the four converted columns
FwciSum(df)  == SumSeq([i \in DOMAIN df.rows |-> FwciCell(df.rows[i])])
PctSum(df)   == SumSeq([i \in DOMAIN df.rows |-> PctCell(df.rows[i])])
Top10Sum(df) == SumSeq([i \in DOMAIN df.rows |-> Top10Cell(df.rows[i])])
Top1Sum(df)  == SumSeq([i \in DOMAIN df.rows |-> Top1Cell(df.rows[i])])

\* lines 59-77: the two sums and the two flag counts
AccumulateSums(self, df_chunk) ==
    [self EXCEPT
        !.fwci_sum =
            IF "fwci" \in df_chunk.columns
            THEN @ + FwciSum(df_chunk) ELSE @,
        !.percentile_sum =
            IF "citation_normalized_percentile" \in df_chunk.columns
            THEN @ + PctSum(df_chunk) ELSE @,
        !.top_10_count =
            IF "is_in_top_10_percent" \in df_chunk.columns
            THEN @ + Top10Sum(df_chunk) ELSE @,
        !.top_1_count =
            IF "is_in_top_1_percent" \in df_chunk.columns
            THEN @ + Top1Sum(df_chunk) ELSE @]

\* lines 79-84: the per-status counts; a status outside the vocabulary is ignored
AccumulateOA(self, df_chunk) ==
    [self EXCEPT
        !.oa_counts =
            IF "oa_status" \in df_chunk.columns
            THEN [s \in OAStatuses |-> @[s] + value_counts(df_chunk, "oa_status", s)]
            ELSE @]

\* A plausible slip: rows without a numeric FWCI are left out of the count
\* (the mean of the present values).
add_batch_present_only(self, df_chunk) ==
    [AccumulateOA(AccumulateSums(self, df_chunk), df_chunk) EXCEPT
        !.count = @ + Cardinality({i \in DOMAIN df_chunk.rows :
                                     to_numeric(df_chunk.rows[i].fwci) # NaN})]

\* A plausible slip: a batch replaces the running sums instead of adding to them.
add_batch_overwrite(self, df_chunk) ==
    [AccumulateOA(AccumulateSums([self EXCEPT !.fwci_sum = 0, !.percentile_sum = 0],
                                 df_chunk), df_chunk) EXCEPT
        !.count = @ + len(df_chunk)]

\* A plausible slip: diamond rows are booked as gold as well.
add_batch_diamond_is_gold(self, df_chunk) ==
    [AccumulateOA(AccumulateSums(self, df_chunk), df_chunk) EXCEPT
        !.count = @ + len(df_chunk),
        !.oa_counts["gold"] = @ + (IF "oa_status" \in df_chunk.columns
                                   THEN value_counts(df_chunk, "oa_status", "diamond")
                                   ELSE 0)]

add_batch(self, df_chunk) ==
    [AccumulateOA(AccumulateSums(self, df_chunk), df_chunk) EXCEPT
        !.count = @ + len(df_chunk)]

ZeroRecord ==
    [num_documents |-> 0, fwci_avg |-> 0, pct_top_10 |-> 0, pct_top_1 |-> 0,
     avg_percentile |-> 0, pct_oa_gold |-> 0, pct_oa_diamond |-> 0,
     pct_oa_green |-> 0, pct_oa_hybrid |-> 0, pct_oa_bronze |-> 0,
     pct_oa_closed |-> 0]

\* A plausible slip: the count == 0 guard is missing.
get_metrics_unguarded(self) ==
    [num_documents  |-> self.count,
     fwci_avg       |-> Divide(self.fwci_sum, self.count),
     pct_top_10     |-> Divide(self.top_10_count * 10000, self.count),
     pct_top_1      |-> Divide(self.top_1_count * 10000, self.count),
     avg_percentile |-> Divide(self.percentile_sum * 100, self.count),
     pct_oa_gold    |-> Divide(self.oa_counts["gold"] * 10000, self.count),
     pct_oa_diamond |-> Divide(self.oa_counts["diamond"] * 10000, self.count),
     pct_oa_green   |-> Divide(self.oa_counts["green"] * 10000, self.count),
     pct_oa_hybrid  |-> Divide(self.oa_counts["hybrid"] * 10000, self.count),
     pct_oa_bronze  |-> Divide(self.oa_counts["bronze"] * 10000, self.count),
     pct_oa_closed  |-> Divide(self.oa_counts["closed"] * 10000, self.count)]

\* A plausible slip: the top-1 share is taken over the top-10 rows.
get_metrics_top1_of_top10(self) ==
    IF self.count = 0 THEN ZeroRecord
    ELSE [get_metrics_unguarded(self) EXCEPT
            !.pct_top_1 = Divide(self.top_1_count * 10000, self.top_10_count)]

get_metrics(self) ==
    IF self.count = 0 THEN ZeroRecord
    ELSE
    [num_documents  |-> self.count,
     fwci_avg       |-> Divide(self.fwci_sum, self.count),
     pct_top_10     |-> Divide(self.top_10_count * 10000, self.count),
     pct_top_1      |-> Divide(self.top_1_count * 10000, self.count),
     avg_percentile |-> Divide(self.percentile_sum * 100, self.count),
     pct_oa_gold    |-> Divide(self.oa_counts["gold"] * 10000, self.count),
     pct_oa_diamond |-> Divide(self.oa_counts["diamond"] * 10000, self.count),
     pct_oa_green   |-> Divide(self.oa_counts["green"] * 10000, self.count),
     pct_oa_hybrid  |-> Divide(self.oa_counts["hybrid"] * 10000, self.count),
     pct_oa_bronze  |-> Divide(self.oa_counts["bronze"] * 10000, self.count),
     pct_oa_closed  |-> Divide(self.oa_counts["closed"] * 10000, self.count)]

(***************************************************************************)
(* calculate_performance_metrics_from_df (transform_metrics.py)            *)
(***************************************************************************)
\* lines 92-111: with the oa_status column absent the record has no pct_oa_diamond
OATypes(works_df) ==
    IF "oa_status" \in works_df.columns
    THEN LET total == len(works_df)
         IN [pct_oa_gold    |-> Divide(value_counts(works_df, "oa_status", "gold") * 100000000, total),
             pct_oa_diamond |-> Divide(value_counts(works_df, "oa_status", "diamond") * 100000000, total),
             pct_oa_green   |-> Divide(value_counts(works_df, "oa_status", "green") * 100000000, total),
             pct_oa_hybrid  |-> Divide(value_counts(works_df, "oa_status", "hybrid") * 100000000, total),
             pct_oa_bronze  |-> Divide(value_counts(works_df, "oa_status", "bronze") * 100000000, total),
             pct_oa_closed  |-> Divide(value_counts(works_df, "oa_status", "closed") * 100000000, total)]
    ELSE [pct_oa_gold |-> 0, pct_oa_green |-> 0, pct_oa_hybrid |-> 0,
          pct_oa_bronze |-> 0, pct_oa_closed |-> 0]

\* lines 59-89 and 113-119
PerformanceFields(works_df) ==
    LET num_documents == len(works_df)
    IN [num_documents |-> num_documents,
        fwci_avg |->
            IF "fwci" \in works_df.columns
            THEN Divide(FwciSum(works_df) * 10000, num_documents) ELSE 0,
        pct_top_10 |->
            IF "is_in_top_10_percent" \in works_df.columns
            THEN Divide(Top10Sum(works_df) * 100000000, num_documents) ELSE 0,
        pct_top_1 |->
            IF "is_in_top_1_percent" \in works_df.columns
            THEN Divide(Top1Sum(works_df) * 100000000, num_documents) ELSE 0,
        avg_percentile |->
            IF "citation_normalized_percentile" \in works_df.columns
            THEN Divide(PctSum(works_df) * 1000000, num_documents) ELSE 0]

\* dict.update: the fields of b are added to, or replace, those of a
update(a, b) ==
    [k \in DOMAIN a \cup DOMAIN b |-> IF k \in DOMAIN b THEN b[k] ELSE a[k]]

calculate_performance_metrics_from_df(works_df) ==
    IF len(works_df) = 0 THEN ZeroRecord
    ELSE update(PerformanceFields(works_df), OATypes(works_df))

(***************************************************************************)
(* process_works_in_chunks (performance_metrics.py)                        *)
(***************************************************************************)
\* lines 139-142: oa_status is taken from the open_access object, 'closed'
\* when the object has none
with_oa_status(df_chunk) ==
    IF "open_access" \in df_chunk.columns
    THEN [columns |-> df_chunk.columns \cup {"oa_status"},
          rows |-> [i \in DOMAIN df_chunk.rows |->
                      [df_chunk.rows[i] EXCEPT
                         !.oa_status = IF @ = "null" THEN "closed" ELSE @]]]
    ELSE df_chunk

\* The filter_func arguments the callers pass: none, a year (line 218), a
\* venue and a year (line 266).
Filters == {"none", "year", "journal_year"}

FilterYear == 2020
FilterJournal == "V1"

Matches(f, r) ==
    CASE f = "none" -> TRUE
      [] f = "year" -> r.publication_year = FilterYear
      [] f = "journal_year" -> r.journal_id = FilterJournal /\ r.publication_year = FilterYear

RECURSIVE SelectRows(_, _)
SelectRows(rows, f) ==
    IF rows = <<>> THEN <<>>
    ELSE IF Matches(f, Head(rows)) THEN <<Head(rows)>> \o SelectRows(Tail(rows), f)
         ELSE SelectRows(Tail(rows), f)

apply_filter(df_chunk, f) == [df_chunk EXCEPT !.rows = SelectRows(@, f)]

\* lines 136-155: the body of the loop for one batch
scan_batch(accumulator, batch, f) ==
    LET df_chunk == apply_filter(with_oa_status(batch), f)
    IN  IF len(df_chunk) > 0 THEN add_batch(accumulator, df_chunk) ELSE accumulator

Min(a, b) == IF a < b THEN a ELSE b

(***************************************************************************)
(* Histories                                                               *)
(***************************************************************************)
NoRows == [k \in Kinds |-> 0]

RECURSIVE CountIn(_, _)
CountIn(idx, k) ==
    IF idx = <<>> THEN 0
    ELSE (IF Head(idx) = k THEN 1 ELSE 0) + CountIn(Tail(idx), k)

Fed(bag, idx) == [k \in Kinds |-> bag[k] + CountIn(idx, k)]

RECURSIVE Total(_, _)
Total(bag, k) == IF k = 0 THEN 0 ELSE bag[k] + Total(bag, k - 1)

FedCount == Total(fed, Len(ArticleRows))

RECURSIVE Repeat(_, _)
Repeat(k, n) == IF n = 0 THEN <<>> ELSE <<k>> \o Repeat(k, n - 1)

RECURSIVE Enumerate(_, _)
Enumerate(bag, k) ==
    IF k = 0 THEN <<>> ELSE Enumerate(bag, k - 1) \o Repeat(k, bag[k])

\* every row fed so far, as one DataFrame
AllFed == DataFrame(schema, Enumerate(fed, Len(ArticleRows)))

\* the rows of the scanned table that pass the filter, as one DataFrame
WholeTable == apply_filter(with_oa_status(DataFrame(schema, table)), filter_func)

(***************************************************************************)
(* transform_metrics.py: input tables, workers, incremental cache          *)
(***************************************************************************)
None == <<>>
Some(x) == <<x>>
Get(o) == o[1]

\* The venue rows the venue file is made of.  V3 is a venue without articles.
VenueRows == <<
    [id |-> "V1", country_code |-> "AR", is_indexed_in_scopus |-> TRUE,
     is_core |-> FALSE, is_in_doaj |-> TRUE],
    [id |-> "V2", country_code |-> "BR", is_indexed_in_scopus |-> FALSE,
     is_core |-> TRUE, is_in_doaj |-> FALSE],
    [id |-> "V3", country_code |-> "CL", is_indexed_in_scopus |-> TRUE,
     is_core |-> TRUE, is_in_doaj |-> TRUE] >>

\* The article rows the article file of a run may hold: V1 in 2020, V2 in
\* 2021, V1 in 2021.
PipelineWorks == {1, 5, 9}

RecentStart == 2021
RecentEnd == 2025

CacheFiles == {"country_annual", "country_period", "country_period_recent",
               "journal_annual", "journal_period", "journal_period_recent",
               "latam_annual", "latam_period", "latam_period_recent"}

EmptyCache == [f \in CacheFiles |-> None]

\* the elements of a set of indices, ascending (the row order of a file)
RECURSIVE Ascending(_, _)
Ascending(S, n) ==
    IF n = 0 THEN <<>>
    ELSE Ascending(S, n - 1) \o (IF n \in S THEN <<n>> ELSE <<>>)

\* pd.read_parquet(journals_file)
journals_df == [i \in DOMAIN Ascending(journals, Len(VenueRows)) |->
                  VenueRows[Ascending(journals, Len(VenueRows))[i]]]

\* pd.read_parquet(works_file)
works_df == DataFrame(AllColumns, Ascending(works, Len(ArticleRows)))

Range(s) == {s[i] : i \in DOMAIN s}

\* list.index(x) + 1
Position(s, x) == CHOOSE i \in DOMAIN s : s[i] = x

\* Series.unique(): first occurrences, in order
RECURSIVE unique(_)
unique(s) ==
    IF s = <<>> THEN <<>>
    ELSE LET init == unique(SubSeq(s, 1, Len(s) - 1))
             x == s[Len(s)]
         IN IF x \in Range(init) THEN init ELSE Append(init, x)

\* sorted(list of strings): insertion into the order of the country codes
CodeOrder == <<"AR", "BR", "CL">>

sorted(s) == SelectSeq(CodeOrder, LAMBDA c : c \in Range(s))

\* safe_get(obj, key, default=False) of performance_metrics.py: anything that
\* is not a dict, a DataFrame row (a Series) included, yields the default.
safe_get(obj, is_dict, key, default) ==
    IF is_dict /\ key \in DOMAIN obj THEN obj[key] ELSE default

\* (rows.apply(lambda x: safe_get(x, flag, default=False), axis=1).sum() / n) * 100
IndexedShare(rows, flag) ==
    Divide(Cardinality({i \in DOMAIN rows : safe_get(rows[i], FALSE, flag, FALSE)})
             * 100000000, Len(rows))

JournalMetrics(rows) ==
    [num_journals |-> Len(rows),
     pct_scopus |-> IndexedShare(rows, "is_indexed_in_scopus"),
     pct_core   |-> IndexedShare(rows, "is_core"),
     pct_doaj   |-> IndexedShare(rows, "is_in_doaj")]

InYears(df, lo, hi) ==
    [columns |-> df.columns,
     rows |-> SelectSeq(df.rows,
                LAMBDA r : r.publication_year >= lo /\ r.publication_year <= hi)]

\* A plausible slip: a year without matching documents gets no row.
AnnualRows_skip_empty(entity_works, sy, ey, extra) ==
    SelectSeq([k \in 1..(ey - sy + 1) |->
                 update(update(calculate_performance_metrics_from_df(
                                   InYears(entity_works, sy + k - 1, sy + k - 1)),
                               [year |-> sy + k - 1]), extra)],
              LAMBDA row : row.num_documents > 0)

\* the annual loop of a worker: one row per year of range(start, end + 1)
AnnualRows(entity_works, sy, ey, extra) ==
    [k \in 1..(ey - sy + 1) |->
        update(update(calculate_performance_metrics_from_df(
                          InYears(entity_works, sy + k - 1, sy + k - 1)),
                      [year |-> sy + k - 1]), extra)]

NoneResult == <<None, None, None, None>>

process_country_worker(country_code, W, J, sy, ey) ==
    LET country_journals == SelectSeq(J, LAMBDA j : j.country_code = country_code)
        journal_ids == {country_journals[i].id : i \in DOMAIN country_journals}
        country_works == [columns |-> W.columns,
                          rows |-> SelectSeq(W.rows, LAMBDA r : r.journal_id \in journal_ids)]
        journal_metrics == JournalMetrics(country_journals)
        key == [country_code |-> country_code]
    IN  IF len(country_works) = 0 THEN NoneResult
        ELSE << Some(country_code),
                Some(AnnualRows(country_works, sy, ey, key)),
                Some(update(update(update(
                    calculate_performance_metrics_from_df(InYears(country_works, sy, ey)),
                    journal_metrics), key), [period |-> <<sy, ey>>])),
                Some(update(update(update(
                    calculate_performance_metrics_from_df(
                        InYears(country_works, RecentStart, RecentEnd)),
                    journal_metrics), key), [period |-> <<RecentStart, RecentEnd>>])) >>

process_journal_worker(journal_id, W, J, sy, ey) ==
    LET journal_info == SelectSeq(J, LAMBDA j : j.id = journal_id)
        journal_indexing ==
            [is_scopus |-> safe_get(journal_info[1], FALSE, "is_indexed_in_scopus", FALSE),
             is_core   |-> safe_get(journal_info[1], FALSE, "is_core", FALSE),
             is_doaj   |-> safe_get(journal_info[1], FALSE, "is_in_doaj", FALSE)]
        journal_works == [columns |-> W.columns,
                          rows |-> SelectSeq(W.rows, LAMBDA r : r.journal_id = journal_id)]
        key == [journal_id |-> journal_id]
    IN  IF Len(journal_info) = 0 THEN NoneResult
        ELSE IF len(journal_works) = 0 THEN NoneResult
        ELSE << Some(journal_id),
                Some(AnnualRows(journal_works, sy, ey, update(key, journal_indexing))),
                Some(update(update(update(
                    calculate_performance_metrics_from_df(InYears(journal_works, sy, ey)),
                    key), [period |-> <<sy, ey>>]), journal_indexing)),
                Some(update(update(update(
                    calculate_performance_metrics_from_df(
                        InYears(journal_works, RecentStart, RecentEnd)),
                    key), [period |-> <<RecentStart, RecentEnd>>]), journal_indexing)) >>

worker_func(lvl, item, W, J, sy, ey) ==
    IF lvl = "country" THEN process_country_worker(item, W, J, sy, ey)
    ELSE process_journal_worker(item, W, J, sy, ey)

\* the id column of the cache tables of a level
id_column(lvl) == IF lvl = "country" THEN "country_code" ELSE "journal_id"

\* the level of a cache file (lines 284-291)
LevelOf_file(f) ==
    CASE f \in {"country_annual", "country_period", "country_period_recent"} -> "country"
      [] f \in {"journal_annual", "journal_period", "journal_period_recent"} -> "journal"
      [] OTHER -> "latam"

\* load_existing_metrics: the table of the file, None when the file is absent
load_existing_metrics(cache_dir, metric_type) == cache_dir[metric_type]

IdsOf(existing_df, col) == {Get(existing_df)[i][col] : i \in DOMAIN Get(existing_df)}

\* A plausible slip: --force is not looked at.
get_items_to_process_no_force(all_items, existing_df, col, frc) ==
    IF existing_df = None THEN all_items
    ELSE SelectSeq(all_items, LAMBDA item : item \notin IdsOf(existing_df, col))

\* A plausible slip: the cached table is not looked at.
get_items_to_process_all(all_items, existing_df, col, frc) == all_items

\* A plausible slip: the membership test is inverted.
get_items_to_process_inverted(all_items, existing_df, col, frc) ==
    IF frc \/ existing_df = None THEN all_items
    ELSE SelectSeq(all_items, LAMBDA item : item \in IdsOf(existing_df, col))

get_items_to_process(all_items, existing_df, col, frc) ==
    IF frc \/ existing_df = None THEN all_items
    ELSE SelectSeq(all_items, LAMBDA item : item \notin IdsOf(existing_df, col))

Max(a, b) == IF a > b THEN a ELSE b

\* ChunkSize with the divisors of the two levels exchanged
ChunkSize_swapped(lvl, n) == IF lvl = "country" THEN Max(1, n \div 20) ELSE Max(10, n \div 4)

\* lines 465 and 546
ChunkSize(lvl, n) == IF lvl = "country" THEN Max(1, n \div 4) ELSE Max(10, n \div 20)

\* the number of loop targets of the collection loop (lines 474 and 555)
LoopTargets(lvl) == IF lvl = "country" THEN 4 ELSE 3

\* the three cache files of a level
FileOf(lvl, kind) ==
    CASE kind = "annual" -> IF lvl = "country" THEN "country_annual" ELSE "journal_annual"
      [] kind = "period" -> IF lvl = "country" THEN "country_period" ELSE "journal_period"
      [] kind = "recent" -> IF lvl = "country" THEN "country_period_recent"
                            ELSE "journal_period_recent"

RECURSIVE Flatten(_)
Flatten(ss) == IF ss = <<>> THEN <<>> ELSE Head(ss) \o Flatten(Tail(ss))

\* pd.concat([existing, new]) unless --force or no existing table (lines 485-489)
Merged(frc, existing_df, new_rows) ==
    IF ~frc /\ existing_df # None THEN Get(existing_df) \o new_rows ELSE new_rows

\* Series.min() and Series.max(): nan for an empty column
MinYear(W) ==
    IF W.rows = <<>> THEN NaN
    ELSE CHOOSE y \in {W.rows[i].publication_year : i \in DOMAIN W.rows} :
            \A i \in DOMAIN W.rows : y <= W.rows[i].publication_year
MaxYear(W) ==
    IF W.rows = <<>> THEN NaN
    ELSE CHOOSE y \in {W.rows[i].publication_year : i \in DOMAIN W.rows} :
            \A i \in DOMAIN W.rows : y >= W.rows[i].publication_year

InputFiles == {"works", "journals"}

\* A plausible slip: the run is only refused when both files are absent.
InputsMissing_both == "works" \notin present /\ "journals" \notin present

\* line 337: not works_file.exists() or not journals_file.exists()
InputsMissing == "works" \notin present \/ "journals" \notin present

\* no run of main has been started
RunIdle ==
    /\ pc = "idle" /\ force = FALSE /\ years = <<0, 0>> /\ level = "country"
    /\ items = <<>> /\ existing = <<None, None, None>> /\ pending = <<>> /\ offset = 0
    /\ pool = None /\ results = <<>> /\ lists = <<<<>>, <<>>, <<>>>> /\ exit = "none"
    /\ runs = 0 /\ prevPlain = FALSE /\ changed = FALSE
    /\ fault = "none" /\ failed = {}

PipeIdle ==
    /\ journals = {1} /\ works = {1} /\ present = InputFiles /\ cache = EmptyCache
    /\ RunIdle

\* no per-entity function has been called
WorkerIdle == call = None /\ ret = None /\ unreadable = {}

\* process_in_chunks has not been entered
ChunkIdle == desc = "countries" /\ total_items = 0 /\ chunk_i = 0 /\ chunk_num = 0

\* no Pool has been created
PoolIdle ==
    /\ pool_func = "process_country_worker" /\ initargs = <<0, 0>> /\ procs = <<>>
    /\ tasks = <<>> /\ map_results = <<>>

(***************************************************************************)
(* process_trajectories.py: tables read, smoothing, map contexts           *)
(*                                                                         *)
(* A metric cell is an integer (fixed point) or NaN; a window mean is      *)
(* rounded to that grid.  The UMAP coordinates x and y of a point are not  *)
(* modelled: a projected point is its metadata columns.                    *)
(***************************************************************************)
\* line 26
METRICS_COLS == <<"num_documents", "fwci_avg", "avg_percentile", "pct_top_1", "pct_top_10">>

\* the entities of the three annual tables: two venues, their countries, the
\* region
TrajSeries == <<"V1", "V2", "AR", "BR", "LATAM">>

FirstYear == 2020

\* the number of annual rows an entity may have in its table
SeriesLengths == {0, MaxYears - 1, MaxYears}

\* the venue metadata file: with every venue, without venue V2, without the
\* country_code column, or absent
MetaKinds == {"full", "partial", "no_country", "absent"}

\* the entity whose table lacks the values of pct_top_1
GapEntities == {"none", "AR", "V1"}

NoTables == [lens |-> [e \in Range(TrajSeries) |-> 0], meta |-> "absent", gap |-> "none",
             order |-> "asc", scipy |-> FALSE]

DisplayName(id) == CASE id = "V1" -> "Revista Uno" [] id = "V2" -> "Revista Dos"
                     [] OTHER -> "Revista Tres"

\* the metric cells of the k-th annual row of an entity
AnnualCells(tin, e, k) ==
    [c \in Range(METRICS_COLS) |->
        IF tin.gap = e /\ c = "pct_top_1" THEN NaN
        ELSE 100 * Position(TrajSeries, e) + 7 * k * k + Position(METRICS_COLS, c)]

\* the years of the rows of an entity, in the row order of its table
SeriesYears(tin, e) ==
    [k \in 1..tin.lens[e] |->
        IF tin.order = "asc" THEN FirstYear + k - 1 ELSE FirstYear + tin.lens[e] - k]

\* lines 97-110 and 113-116: name and country_code of a venue after the left
\* merge with the metadata ("null" is the NaN of a venue the file lacks)
MergedName(tin, j) ==
    CASE tin.meta = "absent" -> j
      [] tin.meta = "partial" /\ j = "V2" -> "null"
      [] OTHER -> DisplayName(j)

MergedCountry(tin, j) ==
    CASE tin.meta \in {"absent", "no_country"} -> "Unknown"
      [] tin.meta = "partial" /\ j = "V2" -> "null"
      [] OTHER -> LET v == CHOOSE i \in DOMAIN VenueRows : VenueRows[i].id = j
                  IN VenueRows[v].country_code

\* the rows of one entity with the columns of keep_cols (line 145)
PointRows(tin, e, name, type, country_code) ==
    [k \in 1..tin.lens[e] |->
        update([id |-> e, name |-> name, type |-> type, year |-> SeriesYears(tin, e)[k],
                country_code |-> country_code],
               AnnualCells(tin, e, SeriesYears(tin, e)[k] - FirstYear + 1))]

\* lines 79-152; None when the journal annual table is absent
load_and_prep_data(tin) ==
    IF tin.lens["V1"] = 0 /\ tin.lens["V2"] = 0 THEN None
    ELSE LET df_j == PointRows(tin, "V1", MergedName(tin, "V1"), "journal",
                               MergedCountry(tin, "V1"))
                     \o PointRows(tin, "V2", MergedName(tin, "V2"), "journal",
                                  MergedCountry(tin, "V2"))
             df_c == PointRows(tin, "AR", "AR", "country", "AR")
                     \o PointRows(tin, "BR", "BR", "country", "BR")
             df_l == PointRows(tin, "LATAM", "Iberoamerica", "region", "LATAM")
         IN Some(df_j \o df_c \o df_l)

\* the order of the ids under sort_values
IdOrder == <<"AR", "BR", "LATAM", "V1", "V2">>

\* line 32: df.sort_values(by=[group_col, 'year'])
sort_values(rows) ==
    Flatten([i \in DOMAIN IdOrder |->
               Flatten([k \in 1..(MaxYears + 1) |->
                          SelectSeq(rows, LAMBDA r : r.id = IdOrder[i]
                                                     /\ r.year = FirstYear + k - 1)])])

Abs(x) == IF x < 0 THEN -x ELSE x

\* the weight of an observation d rows away from the centre: 1 for the plain
\* mean, exp(-d / tau) with tau = 1 for the exponential window (in thousandths)
Weight(exponential, d) ==
    IF ~exponential THEN 1000
    ELSE CASE d = 0 -> 1000 [] d = 1 -> 368 [] OTHER -> 135

\* the rows of the centred window of row p: same group, at most window_size \div 2
\* rows away, the window shrinking at both ends of the group
WindowOf(rows, p, window_size) ==
    {q \in DOMAIN rows : rows[q].id = rows[p].id /\ Abs(q - p) <= window_size \div 2}

RECURSIVE WeightedSum(_, _, _, _, _, _)
WeightedSum(rows, col, p, qs, exponential, with_values) ==
    IF qs = {} THEN 0
    ELSE LET q == CHOOSE x \in qs : TRUE
         IN (IF with_values THEN rows[q][col] ELSE 1) * Weight(exponential, Abs(q - p))
            + WeightedSum(rows, col, p, qs \ {q}, exponential, with_values)

\* x.rolling(window_size, min_periods=1, center=True).mean() of one cell
RollingMean(rows, col, p, window_size, exponential) ==
    LET observed == {q \in WindowOf(rows, p, window_size) : rows[q][col] # NaN}
    IN IF Cardinality(observed) < 1 THEN NaN
       ELSE RoundDiv(WeightedSum(rows, col, p, observed, exponential, TRUE),
                     WeightedSum(rows, col, p, observed, exponential, FALSE))

\* A plausible slip: min_periods is left at its default, the window size, and
\* the rows without a full window are dropped.
apply_smoothing_full_windows(df, window_size, exponential) ==
    IF df = <<>> THEN df
    ELSE LET sorted_df == sort_values(df)
             full == {p \in DOMAIN sorted_df :
                        Cardinality(WindowOf(sorted_df, p, window_size)) = window_size}
             smoothed_df ==
                [p \in DOMAIN sorted_df |->
                    [f \in DOMAIN sorted_df[p] |->
                        IF f \in Range(METRICS_COLS)
                        THEN RollingMean(sorted_df, f, p, window_size, exponential)
                        ELSE sorted_df[p][f]]]
         IN SelectSeq(smoothed_df,
                      LAMBDA r : \E p \in full : sorted_df[p].id = r.id
                                                 /\ sorted_df[p].year = r.year)

\* lines 30-44; exponential tells which of the two branches computes the mean
\* (the weighted window needs scipy, the bare except falls back to the plain mean)
apply_smoothing(df, window_size, exponential) ==
    IF df = <<>> THEN df
    ELSE LET sorted_df == sort_values(df)
         IN [p \in DOMAIN sorted_df |->
                [f \in DOMAIN sorted_df[p] |->
                    IF f \in Range(METRICS_COLS)
                    THEN RollingMean(sorted_df, f, p, window_size, exponential)
                    ELSE sorted_df[p][f]]]

\* line 176: smoothed.dropna(subset=METRICS_COLS)
dropna(rows) == SelectSeq(rows, LAMBDA r : \A c \in Range(METRICS_COLS) : r[c] # NaN)

\* line 180
countries_data(valid_data) == SelectSeq(valid_data, LAMBDA r : r.type \in {"country", "region"})

\* line 196
countries_of(valid_data) ==
    LET country_rows == SelectSeq(valid_data, LAMBDA r : r.type = "country")
    IN unique([i \in DOMAIN country_rows |-> country_rows[i].id])

\* A plausible slip: the region is put on every local map.
local_subset_with_region(valid_data, country) ==
    SelectSeq(valid_data, LAMBDA r : r.country_code = country \/ r.type = "region")

\* lines 202-203
local_subset(valid_data, country) ==
    SelectSeq(valid_data, LAMBDA r : r.country_code = country)

\* line 74: the metadata columns of the projected points
Coords(rows) ==
    [i \in DOMAIN rows |->
        [id |-> rows[i].id, name |-> rows[i].name, type |-> rows[i].type,
         year |-> rows[i].year, country_code |-> rows[i].country_code]]

\* the global map is projected when it has more than 10 points (line 182)
GlobalProjected(points) == Len(points) > 10

\* a local map is skipped when it has fewer than 10 points (line 205)
LocalSkipped(points) == Len(points) < 10

TrajIdle ==
    /\ traj_in = NoTables /\ tpc = "start" /\ raw_data = None
    /\ smoothed = <<>> /\ smoothed_w5 = <<>>
    /\ map_countries = None /\ map_journals = None
    /\ todo = <<>> /\ all_journal_coords = <<>> /\ projected = {}

(***************************************************************************)
(* Accumulator and scan: the state machine                                 *)
(***************************************************************************)
InitAccIdle ==
    /\ mode = "direct" /\ schema = AllColumns /\ acc = reset /\ fed = NoRows
    /\ last = NoRecord /\ calls = 0 /\ dfrec = NoRecord
    /\ table = <<>> /\ chunk_size = 1 /\ filter_func = "none" /\ pos = 0
    /\ scan_error = FALSE

InitAcc ==
    /\ PipeIdle /\ WorkerIdle /\ TrajIdle /\ ChunkIdle /\ PoolIdle
    /\ scan_error = FALSE
    /\ acc = reset /\ fed = NoRows /\ last = NoRecord /\ calls = 0 /\ dfrec = NoRecord
    /\ pos = 0
    /\ \/ /\ mode = "direct"
          /\ schema \in DirectSchemas
          /\ table = <<>> /\ chunk_size = 1 /\ filter_func = "none"
       \/ /\ mode = "scan"
          /\ schema \in ScanSchemas
          /\ table \in SeqUpTo(Kinds, MaxTable)
          /\ chunk_size \in 1..MaxChunk
          /\ filter_func \in Filters

\* a caller hands one batch to MetricsAccumulator.add_batch
AddBatch ==
    /\ mode = "direct"
    /\ \E idx \in SeqUpTo(DirectKinds, MaxBatch) :
          /\ FedCount + Len(idx) <= MaxDocs
          /\ acc' = add_batch(acc, DataFrame(schema, idx))
          /\ fed' = Fed(fed, idx)
    /\ last' = NoRecord /\ calls' = 0 /\ dfrec' = NoRecord
    /\ UNCHANGED <<scan_error, mode, schema, table, chunk_size, filter_func, pos>>
    /\ UNCHANGED <<pipeVars, auxVars>>

\* A plausible slip: get_metrics clears the accumulator once it has the record.
GetMetricsAndReset ==
    /\ mode = "direct"
    /\ calls < MaxCalls
    /\ last' = get_metrics(acc)
    /\ calls' = calls + 1
    /\ acc' = reset
    /\ UNCHANGED <<scan_error, mode, schema, fed, dfrec, table, chunk_size, filter_func, pos>>
    /\ UNCHANGED <<pipeVars, auxVars>>

\* a caller calls MetricsAccumulator.get_metrics
GetMetrics ==
    /\ mode = "direct"
    /\ calls < MaxCalls
    /\ last' = get_metrics(acc)
    /\ calls' = calls + 1
    /\ UNCHANGED <<scan_error, mode, schema, acc, fed, dfrec, table, chunk_size, filter_func, pos>>
    /\ UNCHANGED <<pipeVars, auxVars>>

\* the in-memory aggregator is run on the same rows
FromDf ==
    /\ mode = "direct"
    /\ dfrec = NoRecord
    /\ dfrec' = calculate_performance_metrics_from_df(AllFed)
    /\ UNCHANGED <<scan_error, mode, schema, acc, fed, last, calls, table, chunk_size, filter_func, pos>>
    /\ UNCHANGED <<pipeVars, auxVars>>

\* process_works_in_chunks: one iteration of the loop over iter_batches
ScanBatch ==
    /\ mode = "scan" /\ ~scan_error
    /\ pos < Len(table)
    /\ LET upto  == Min(pos + chunk_size, Len(table))
           batch == DataFrame(schema, SubSeq(table, pos + 1, upto))
           kept  == SelectSeq(SubSeq(table, pos + 1, upto),
                              LAMBDA k : Matches(filter_func, ArticleRows[k]))
       IN  /\ acc' = scan_batch(acc, batch, filter_func)
           /\ fed' = Fed(fed, kept)
           /\ pos' = upto
    /\ UNCHANGED <<scan_error, mode, schema, last, calls, dfrec, table, chunk_size, filter_func>>
    /\ UNCHANGED <<pipeVars, auxVars>>

\* process_works_in_chunks: return accumulator.get_metrics()
ScanReturn ==
    /\ mode = "scan" /\ ~scan_error
    /\ pos = Len(table)
    /\ calls = 0
    /\ last' = get_metrics(acc)
    /\ calls' = 1
    /\ UNCHANGED <<scan_error, mode, schema, acc, fed, dfrec, table, chunk_size, filter_func, pos>>
    /\ UNCHANGED <<pipeVars, auxVars>>

\* process_works_in_chunks lines 135-136: iter_batches or to_pandas raises on
\* the batch at pos; nothing in the function catches, the exception leaves it
ScanRaise ==
    /\ mode = "scan" /\ ~scan_error
    /\ pos < Len(table)
    /\ scan_error' = TRUE
    /\ UNCHANGED <<mode, schema, acc, fed, last, calls, dfrec, table, chunk_size,
                   filter_func, pos>>
    /\ UNCHANGED <<pipeVars, auxVars>>

NextAcc == AddBatch \/ GetMetrics \/ FromDf \/ ScanBatch \/ ScanReturn \/ ScanRaise

AccSpec == InitAcc /\ [][NextAcc]_vars


(***************************************************************************)
(* transform_metrics.main: the state machine                               *)
(***************************************************************************)
InitPipe ==
    /\ present \in SUBSET InputFiles
    /\ journals \in (IF "journals" \in present THEN (SUBSET DOMAIN VenueRows) \ {{}} ELSE {{}})
    /\ works \in (IF "works" \in present THEN (SUBSET PipelineWorks) \ {{}} ELSE {{}})
    /\ cache = EmptyCache
    /\ pc = "idle" /\ force = FALSE /\ years = <<0, 0>> /\ level = "country"
    /\ items = <<>> /\ existing = <<None, None, None>> /\ pending = <<>> /\ offset = 0
    /\ pool = None /\ results = <<>> /\ lists = <<<<>>, <<>>, <<>>>> /\ exit = "none"
    /\ runs = 0 /\ prevPlain = FALSE /\ changed = FALSE
    /\ fault = "none" /\ failed = {}

\* ingestion adds a venue to the venue file, creating the file if need be
IngestVenue ==
    /\ pc = "idle"
    /\ \E v \in DOMAIN VenueRows \ journals : journals' = journals \cup {v}
    /\ present' = present \cup {"journals"}
    /\ changed' = TRUE
    /\ UNCHANGED <<works, cache, runVars, runs, prevPlain, fault, failed, accVars, auxVars>>

\* ingestion adds an article to the article file, creating the file if need be
IngestWork ==
    /\ pc = "idle"
    /\ \E w \in PipelineWorks \ works : works' = works \cup {w}
    /\ present' = present \cup {"works"}
    /\ changed' = TRUE
    /\ UNCHANGED <<journals, cache, runVars, runs, prevPlain, fault, failed, accVars, auxVars>>

\* lines 319-385: arguments, input files, year range.  Without one of the
\* input files main returns 1 at line 339; int() of the nan year of an empty
\* article table raises at line 383.
MainStart ==
    /\ pc = "idle"
    /\ runs < MaxRuns
    /\ force' \in BOOLEAN
    /\ runs' = runs + 1
    /\ level' = "country" /\ items' = <<>> /\ existing' = <<None, None, None>>
    /\ pending' = <<>> /\ offset' = 0 /\ pool' = None /\ results' = <<>>
    /\ lists' = <<<<>>, <<>>, <<>>>>
    /\ IF InputsMissing
       THEN pc' = "idle" /\ exit' = "1" /\ years' = <<0, 0>>
       ELSE IF MinYear(works_df) = NaN
       THEN pc' = "idle" /\ exit' = "exception" /\ years' = <<0, 0>>
       ELSE /\ years' = <<MinYear(works_df), MaxYear(works_df)>>
            /\ pc' = "latam"
            /\ exit' = "none"
    /\ UNCHANGED <<inputVars, cache, prevPlain, changed, fault, failed, accVars, auxVars>>

\* lines 389-434: the region tables are recomputed and rewritten by every run
LatamMetrics ==
    /\ pc = "latam"
    /\ LET sy == years[1]
           ey == years[2]
           journal_metrics == JournalMetrics(journals_df)
       IN cache' = [cache EXCEPT
            !["latam_annual"] = Some(AnnualRows(works_df, sy, ey, <<>>)),
            !["latam_period"] = Some(<<update(update(
                calculate_performance_metrics_from_df(InYears(works_df, sy, ey)),
                journal_metrics), [period |-> <<sy, ey>>])>>),
            !["latam_period_recent"] = Some(<<update(update(
                calculate_performance_metrics_from_df(
                    InYears(works_df, RecentStart, RecentEnd)),
                journal_metrics), [period |-> <<RecentStart, RecentEnd>>])>>)]
    /\ pc' = "select"
    /\ UNCHANGED <<inputVars, force, years, level, items, existing, pending, offset, pool,
                   results, lists, exit, histVars, accVars, auxVars>>

\* lines 440-452 and 521-533: the entity list, the cached tables, the pending list
Select ==
    /\ pc = "select"
    /\ items' = IF level = "country"
                THEN sorted(unique([i \in DOMAIN journals_df |-> journals_df[i].country_code]))
                ELSE unique([i \in DOMAIN journals_df |-> journals_df[i].id])
    /\ existing' = << load_existing_metrics(cache, FileOf(level, "annual")),
                      load_existing_metrics(cache, FileOf(level, "period")),
                      load_existing_metrics(cache, FileOf(level, "recent")) >>
    /\ pending' = get_items_to_process(items', existing'[2], id_column(level), force)
    /\ offset' = 0 /\ results' = <<>> /\ lists' = <<<<>>, <<>>, <<>>>>
    /\ pc' = "selected"
    /\ UNCHANGED <<inputVars, cache, force, years, level, pool, exit, histVars, accVars, auxVars>>

\* the end of a level: on to the journal level, or the summary and return 0
Advance ==
    IF level = "country"
    THEN /\ pc' = "select" /\ level' = "journal"
         /\ UNCHANGED <<exit, prevPlain, changed>>
    ELSE /\ pc' = "idle" /\ exit' = "0" /\ level' = level
         /\ prevPlain' = ~force /\ changed' = FALSE

\* lines 454-456 and 535-537: nothing to process at this level
SkipLevel ==
    /\ pc = "selected"
    /\ pending = <<>>
    /\ Advance
    /\ UNCHANGED <<inputVars, cache, force, years, items, existing, pending, offset, pool,
                   results, lists, runs, fault, failed, accVars, auxVars>>

\* PoolStart with the period table of the level created by the new Pool
PoolStart_write ==
    /\ pc \in {"selected", "chunks"}
    /\ offset < Len(pending)
    /\ pool' = Some(SubSeq(pending, offset + 1,
                           Min(offset + ChunkSize(level, Len(pending)), Len(pending))))
    /\ cache' = [cache EXCEPT ![FileOf(level, "period")] =
                    Some(IF existing[2] = None THEN <<>> ELSE Get(existing[2]))]
    /\ pc' = "map"
    /\ UNCHANGED <<inputVars, force, years, level, items, existing, pending, offset,
                   results, lists, exit, histVars, accVars, auxVars>>

\* process_in_chunks lines 266-273: the Pool of the next chunk is created
PoolStart ==
    /\ pc \in {"selected", "chunks"}
    /\ offset < Len(pending)
    /\ pool' = Some(SubSeq(pending, offset + 1,
                           Min(offset + ChunkSize(level, Len(pending)), Len(pending))))
    /\ pc' = "map"
    /\ UNCHANGED <<inputVars, cache, force, years, level, items, existing, pending, offset,
                   results, lists, exit, histVars, accVars, auxVars>>

\* PoolReturn with a loop that steps one item too far after each chunk
PoolReturn_skip_item ==
    /\ pc = "map"
    /\ LET chunk == Get(pool)
       IN results' = results \o
            [i \in DOMAIN chunk |->
                worker_func(level, chunk[i], works_df, journals_df, years[1], years[2])]
    /\ pool' = None
    /\ offset' = offset + ChunkSize(level, Len(pending)) + 1
    /\ pc' = "chunks"
    /\ UNCHANGED <<inputVars, cache, force, years, level, items, existing, pending,
                   lists, exit, histVars, accVars, auxVars>>

\* process_in_chunks lines 274-278: pool.map returns, the Pool is released
PoolReturn ==
    /\ pc = "map"
    /\ LET chunk == Get(pool)
       IN results' = results \o
            [i \in DOMAIN chunk |->
                worker_func(level, chunk[i], works_df, journals_df, years[1], years[2])]
    /\ pool' = None
    /\ offset' = offset + ChunkSize(level, Len(pending))
    /\ pc' = "chunks"
    /\ UNCHANGED <<inputVars, cache, force, years, level, items, existing, pending,
                   lists, exit, histVars, accVars, auxVars>>

\* the entries of position k that are not None
NotNone(rs, k) ==
    LET kept == SelectSeq(rs, LAMBDA r : r[k] # None)
    IN [i \in DOMAIN kept |-> Get(kept[i][k])]

\* lines 469-480 and 550-561: the collection loop.  Unpacking a result tuple
\* into a different number of loop targets raises ValueError.
Collect ==
    /\ pc = "chunks"
    /\ offset >= Len(pending)
    /\ LET n == LoopTargets(level)
       IN IF \E i \in DOMAIN results : Len(results[i]) # n
          THEN /\ pc' = "idle" /\ exit' = "exception"
               /\ prevPlain' = ~force /\ changed' = FALSE
               /\ UNCHANGED lists
          ELSE /\ lists' = << NotNone(results, n - 2), NotNone(results, n - 1),
                              NotNone(results, n) >>
               /\ pc' = "write_annual"
               /\ UNCHANGED <<exit, prevPlain, changed>>
    /\ UNCHANGED <<inputVars, cache, force, years, level, items, existing, pending, offset,
                   pool, results, runs, fault, failed, accVars, auxVars>>

\* lines 483-491 and 564-572
WriteAnnual ==
    /\ pc = "write_annual"
    /\ cache' = IF lists[1] # <<>>
                THEN [cache EXCEPT ![FileOf(level, "annual")] =
                        Some(Merged(force, existing[1], Flatten(lists[1])))]
                ELSE cache
    /\ pc' = "write_period"
    /\ UNCHANGED <<inputVars, force, years, level, items, existing, pending, offset, pool,
                   results, lists, exit, histVars, accVars, auxVars>>

\* lines 493-501 and 574-582
WritePeriod ==
    /\ pc = "write_period"
    /\ cache' = IF lists[2] # <<>>
                THEN [cache EXCEPT ![FileOf(level, "period")] =
                        Some(Merged(force, existing[2], lists[2]))]
                ELSE cache
    /\ pc' = "write_recent"
    /\ UNCHANGED <<inputVars, force, years, level, items, existing, pending, offset, pool,
                   results, lists, exit, histVars, accVars, auxVars>>

\* lines 503-514 and 584-595
WriteRecent ==
    /\ pc = "write_recent"
    /\ cache' = IF lists[3] # <<>>
                THEN [cache EXCEPT ![FileOf(level, "recent")] =
                        Some(Merged(force, existing[3], lists[3]))]
                ELSE cache
    /\ Advance
    /\ UNCHANGED <<inputVars, force, years, items, existing, pending, offset, pool,
                   results, lists, runs, fault, failed, accVars, auxVars>>

Init == InitAccIdle /\ InitPipe /\ WorkerIdle /\ TrajIdle /\ ChunkIdle /\ PoolIdle

Next ==
    \/ IngestVenue \/ IngestWork
    \/ MainStart \/ LatamMetrics \/ Select \/ SkipLevel
    \/ PoolStart \/ PoolReturn \/ Collect
    \/ WriteAnnual \/ WritePeriod \/ WriteRecent

Spec == Init /\ [][Next]_vars

\* a cache table left by earlier runs: one row for each of the given entities
CachedRows(f, ids) ==
    [i \in DOMAIN ids |->
        IF f \in {"country_annual", "journal_annual"}
        THEN [k \in {id_column(LevelOf_file(f)), "year", "num_documents"} |->
                CASE k = "year" -> RecentStart
                  [] k = "num_documents" -> 0
                  [] OTHER -> ids[i]]
        ELSE [k \in {id_column(LevelOf_file(f)), "period", "num_documents"} |->
                CASE k = "period" -> <<RecentStart, RecentEnd>>
                  [] k = "num_documents" -> 0
                  [] OTHER -> ids[i]]]

\* main started on a cache directory in which each of the three country
\* tables exists or not, independently of the others, and the journal tables
\* are all absent or all complete
InitAnyCache ==
    /\ InitAccIdle /\ WorkerIdle /\ TrajIdle /\ ChunkIdle /\ PoolIdle
    /\ present = InputFiles
    /\ journals \in (SUBSET DOMAIN VenueRows) \ {{}}
    /\ works \in (SUBSET PipelineWorks) \ {{}}
    /\ \E there \in SUBSET {"country_annual", "country_period", "country_period_recent"},
          complete \in BOOLEAN :
          cache = [f \in CacheFiles |->
                     IF f \in there THEN Some(CachedRows(f, <<"AR">>))
                     ELSE IF complete /\ LevelOf_file(f) = "journal"
                     THEN Some(CachedRows(f, <<"V1", "V2", "V3">>))
                     ELSE None]
    /\ RunIdle

AnyCacheSpec == InitAnyCache /\ [][Next]_vars

\* SIGKILL of the process that runs main, at any point of the run
Kill ==
    /\ pc # "idle"
    /\ fault = "none"
    /\ fault' = "kill"
    /\ pc' = "idle" /\ exit' = "killed" /\ pool' = None
    /\ prevPlain' = FALSE /\ changed' = FALSE
    /\ UNCHANGED <<inputVars, cache, force, years, level, items, existing, pending, offset,
                   results, lists, runs, failed, accVars, auxVars>>

\* process_in_chunks line 274: a worker raises, pool.map re-raises in the
\* parent; neither process_in_chunks nor main catches
WorkerRaise ==
    /\ pc = "map"
    /\ fault = "none"
    /\ \E item \in Range(Get(pool)) : failed' = failed \cup {item}
    /\ fault' = "raise"
    /\ pc' = "idle" /\ exit' = "worker_error" /\ pool' = None
    /\ prevPlain' = FALSE /\ changed' = FALSE
    /\ UNCHANGED <<inputVars, cache, force, years, level, items, existing, pending, offset,
                   results, lists, runs, accVars, auxVars>>

NextFault == Next \/ Kill \/ WorkerRaise

\* main with one fault: a kill of the process or an exception in a worker
FaultSpec == Init /\ [][NextFault]_vars

(***************************************************************************)
(* The per-entity functions, called on their own                           *)
(***************************************************************************)
\* process_works_in_chunks on a table of at most chunk_size rows: one batch,
\* given here with the filter already applied
process_works_in_chunks(filtered) ==
    get_metrics(IF len(filtered) > 0 THEN add_batch(reset, filtered) ELSE reset)

\* performance_metrics.py lines 307-309: the share, later rounded to 2 decimals
IndexedShareChunked(rows, flag) ==
    Divide(Cardinality({i \in DOMAIN rows : safe_get(rows[i], FALSE, flag, FALSE)}) * 10000,
           Len(rows))

calculate_country_metrics_chunked(W, J, country_code, sy, ey) ==
    LET country_journals == SelectSeq(J, LAMBDA j : j.country_code = country_code)
        journal_ids == {country_journals[i].id : i \in DOMAIN country_journals}
        journal_metrics ==
            [num_journals |-> Len(country_journals),
             pct_scopus |-> IndexedShareChunked(country_journals, "is_indexed_in_scopus"),
             pct_core   |-> IndexedShareChunked(country_journals, "is_core"),
             pct_doaj   |-> IndexedShareChunked(country_journals, "is_in_doaj")]
        country_works == [columns |-> W.columns,
                          rows |-> SelectSeq(W.rows, LAMBDA r : r.journal_id \in journal_ids)]
    IN  IF Len(country_journals) = 0 THEN <<None, None, None>>
        ELSE << Some([k \in 1..(ey - sy + 1) |->
                        update(update(process_works_in_chunks(
                                          InYears(country_works, sy + k - 1, sy + k - 1)),
                                      [year |-> sy + k - 1]),
                               [country_code |-> country_code])]),
                Some(update(update(update(
                        process_works_in_chunks(InYears(country_works, sy, ey)),
                        journal_metrics), [country_code |-> country_code]),
                        [period |-> <<2021, 2025>>])),
                Some(journal_metrics) >>

calculate_journal_metrics_chunked(W, J, journal_id, sy, ey) ==
    LET journal_info == SelectSeq(J, LAMBDA j : j.id = journal_id)
        journal_indexing ==
            [is_scopus |-> safe_get(journal_info[1], FALSE, "is_indexed_in_scopus", FALSE),
             is_core   |-> safe_get(journal_info[1], FALSE, "is_core", FALSE),
             is_doaj   |-> safe_get(journal_info[1], FALSE, "is_in_doaj", FALSE)]
        journal_works == [columns |-> W.columns,
                          rows |-> SelectSeq(W.rows, LAMBDA r : r.journal_id = journal_id)]
    IN  IF Len(journal_info) = 0 THEN <<None, None>>
        ELSE << Some([k \in 1..(ey - sy + 1) |->
                        update(update(process_works_in_chunks(
                                          InYears(journal_works, sy + k - 1, sy + k - 1)),
                                      [year |-> sy + k - 1, journal_id |-> journal_id]),
                               journal_indexing)]),
                Some(update(update(
                        process_works_in_chunks(InYears(journal_works, sy, ey)),
                        [journal_id |-> journal_id, period |-> <<sy, ey>>]),
                        journal_indexing)) >>

CountryFunctions == {"calculate_country_metrics_chunked", "process_country_worker"}
JournalFunctions == {"calculate_journal_metrics_chunked", "process_journal_worker"}

\* the venue ids and country codes a caller may pass
VenueIds == {VenueRows[i].id : i \in DOMAIN VenueRows}
CountryCodes == Range(CodeOrder)

Apply(fn, id, W, J, sy, ey) ==
    CASE fn = "calculate_country_metrics_chunked" ->
            calculate_country_metrics_chunked(W, J, id, sy, ey)
      [] fn = "process_country_worker" -> process_country_worker(id, W, J, sy, ey)
      [] fn = "calculate_journal_metrics_chunked" ->
            calculate_journal_metrics_chunked(W, J, id, sy, ey)
      [] fn = "process_journal_worker" -> process_journal_worker(id, W, J, sy, ey)

InitWorker ==
    /\ InitAccIdle /\ TrajIdle /\ WorkerIdle /\ ChunkIdle /\ PoolIdle
    /\ present = InputFiles
    /\ journals \in (SUBSET DOMAIN VenueRows) \ {{}}
    /\ works \in (SUBSET PipelineWorks) \ {{}}
    /\ cache = EmptyCache /\ RunIdle

\* a per-country function is called for a country code
CallCountry ==
    /\ \E fn \in CountryFunctions, id \in CountryCodes :
          /\ call' = Some([fn |-> fn, id |-> id])
          /\ ret' = Apply(fn, id, works_df, journals_df, MinYear(works_df), MaxYear(works_df))
    /\ UNCHANGED <<unreadable, accVars, pipeVars, trajVars, chunkVars, poolVars>>

\* a per-venue function is called for a venue id
CallJournal ==
    /\ \E fn \in JournalFunctions, id \in VenueIds :
          /\ call' = Some([fn |-> fn, id |-> id])
          /\ ret' = Apply(fn, id, works_df, journals_df, MinYear(works_df), MaxYear(works_df))
    /\ UNCHANGED <<unreadable, accVars, pipeVars, trajVars, chunkVars, poolVars>>

NextWorker == CallCountry \/ CallJournal

WorkerSpec == InitWorker /\ [][NextWorker]_vars

(***************************************************************************)
(* The two readers of the cache tables                                     *)
(***************************************************************************)
Readers == {"load_existing_metrics", "load_cached_metrics"}

\* the outcome of a call: an exception, or the value returned
Raised == [raised |-> TRUE, value |-> None]
Returned(v) == [raised |-> FALSE, value |-> v]

\* transform_metrics.py lines 293-296: read_parquet is not guarded, so the
\* exception of an unreadable file leaves the function
load_existing_metrics_call(cache_dir, bad, metric_type) ==
    IF cache_dir[metric_type] # None
    THEN (IF metric_type \in bad THEN Raised
          ELSE Returned(load_existing_metrics(cache_dir, metric_type)))
    ELSE Returned(None)

\* performance_metrics.py lines 534-544: read_parquet inside try/except
load_cached_metrics(cache_dir, bad, cache_file) ==
    IF cache_dir[cache_file] # None
    THEN (IF cache_file \in bad THEN Returned(None) ELSE Returned(cache_dir[cache_file]))
    ELSE Returned(None)

\* the table a cache file holds when it exists: the period rows of country AR
\* for the country files, no row for the others
StoredTable(f) ==
    IF f \in {"country_period", "country_period_recent"}
    THEN <<[country_code |-> "AR", period |-> <<RecentStart, RecentEnd>>, num_documents |-> 0]>>
    ELSE <<>>

\* the files the two readers are asked for
ReadFiles == {"country_annual", "country_period", "country_period_recent",
              "journal_annual", "journal_period", "journal_period_recent"}

InitRead ==
    /\ InitAccIdle /\ TrajIdle /\ ChunkIdle /\ PoolIdle
    /\ journals = {1} /\ works = {1} /\ present = InputFiles /\ RunIdle
    /\ \E there \in SUBSET ReadFiles :
          /\ cache = [f \in CacheFiles |-> IF f \in there THEN Some(StoredTable(f)) ELSE None]
          /\ unreadable \in SUBSET there
    /\ call = None /\ ret = None

\* main calls load_existing_metrics(cache_dir, metric_type)
ReadExisting ==
    /\ \E metric_type \in ReadFiles :
          /\ call' = Some([fn |-> "load_existing_metrics", id |-> metric_type])
          /\ ret' = load_existing_metrics_call(cache, unreadable, metric_type)
    /\ UNCHANGED <<unreadable, accVars, pipeVars, trajVars, chunkVars, poolVars>>

\* the dashboard calls load_cached_metrics(level, metric_type)
ReadCached ==
    /\ \E cache_file \in ReadFiles :
          /\ call' = Some([fn |-> "load_cached_metrics", id |-> cache_file])
          /\ ret' = load_cached_metrics(cache, unreadable, cache_file)
    /\ UNCHANGED <<unreadable, accVars, pipeVars, trajVars, chunkVars, poolVars>>

NextRead == ReadExisting \/ ReadCached

ReadSpec == InitRead /\ [][NextRead]_vars

(***************************************************************************)
(* process_in_chunks: the loop over range(0, total_items, chunk_size)      *)
(***************************************************************************)
MaxPending == 400

\* the level of a desc argument (lines 467 and 548)
LevelOfDesc(d) == IF d = "countries" THEN "country" ELSE "journal"

\* lines 258-259, called from lines 466-467 and 547-548 with a non-empty list
InitChunk ==
    /\ InitAccIdle /\ PipeIdle /\ WorkerIdle /\ TrajIdle /\ PoolIdle
    /\ desc \in {"countries", "journals"}
    /\ total_items \in 1..MaxPending
    /\ chunk_i = 0 /\ chunk_num = 0

\* lines 263-278: one iteration of the loop
NextChunk ==
    /\ chunk_i < total_items
    /\ LET chunk_size_ == ChunkSize(LevelOfDesc(desc), total_items)
       IN /\ chunk_num' = (chunk_i \div chunk_size_) + 1
          /\ chunk_i' = chunk_i + chunk_size_
    /\ UNCHANGED <<desc, total_items, accVars, pipeVars, workerVars, trajVars, poolVars>>

ChunkSpec == InitChunk /\ [][NextChunk]_vars

(***************************************************************************)
(* One Pool of process_in_chunks: init_worker and the worker functions     *)
(***************************************************************************)
MaxCores == 2

\* pd.read_parquet of an article file and of a venue file with the given rows
read_parquet_works(S) == DataFrame(AllColumns, Ascending(S, Len(ArticleRows)))

read_parquet_journals(S) ==
    [i \in DOMAIN Ascending(S, Len(VenueRows)) |-> VenueRows[Ascending(S, Len(VenueRows))[i]]]

\* the level a worker function computes
LevelOf(fn) == IF fn = "process_country_worker" THEN "country" ELSE "journal"

\* lines 440 and 521: the items of a level, for the venue table J
ItemsOf(lvl, J) ==
    IF lvl = "country"
    THEN sorted(unique([i \in DOMAIN J |-> J[i].country_code]))
    ELSE unique([i \in DOMAIN J |-> J[i].id])

\* lines 26-29: the globals of a process that has not run init_worker
NewProcess == [loads |-> 0, g_works |-> None, g_journals |-> None, served |-> <<>>]

InitPool ==
    /\ InitAccIdle /\ TrajIdle /\ WorkerIdle /\ ChunkIdle /\ PoolIdle
    /\ present = InputFiles
    /\ journals \in (SUBSET DOMAIN VenueRows) \ {{}}
    /\ works \in (SUBSET PipelineWorks) \ {{}}
    /\ cache = EmptyCache /\ RunIdle

\* process_in_chunks lines 264-273: Pool(processes=num_cores,
\* initializer=init_worker, initargs=...) starts num_cores processes and
\* pool.map queues the items of the chunk
PoolCreate ==
    /\ procs = <<>> /\ map_results = <<>>
    /\ \E fn \in {"process_country_worker", "process_journal_worker"}, num_cores \in 1..MaxCores :
         LET all == ItemsOf(LevelOf(fn), journals_df)
             size == ChunkSize(LevelOf(fn), Len(all))
         IN \E k \in 0..(Len(all) - 1) :
              /\ k % size = 0
              /\ pool_func' = fn
              /\ tasks' = SubSeq(all, k + 1, Min(k + size, Len(all)))
              /\ procs' = [w \in 1..num_cores |-> NewProcess]
    /\ initargs' = <<MinYear(works_df), MaxYear(works_df)>>
    /\ UNCHANGED <<map_results, accVars, pipeVars, workerVars, trajVars, chunkVars>>

\* init_worker, lines 31-37, run by a process of the Pool when it starts
RunInitWorker ==
    /\ \E w \in DOMAIN procs :
          /\ procs[w].loads = 0
          /\ procs' = [procs EXCEPT ![w] = [@ EXCEPT !.loads = 1,
                                                      !.g_works = Some(works),
                                                      !.g_journals = Some(journals)]]
    /\ UNCHANGED <<pool_func, initargs, tasks, map_results,
                   accVars, pipeVars, workerVars, trajVars, chunkVars>>

\* ServeTask with a worker function that reads the two files at each call
ServeTask_reload ==
    /\ tasks # <<>>
    /\ \E w \in DOMAIN procs :
          /\ procs[w].loads > 0
          /\ procs' = [procs EXCEPT ![w] = [@ EXCEPT !.served = Append(@, Head(tasks)),
                                                      !.loads = @ + 1,
                                                      !.g_works = Some(works),
                                                      !.g_journals = Some(journals)]]
          /\ map_results' = Append(map_results,
                [item |-> Head(tasks), by |-> w,
                 result |-> worker_func(LevelOf(pool_func), Head(tasks),
                                read_parquet_works(works), read_parquet_journals(journals),
                                initargs[1], initargs[2])])
    /\ tasks' = Tail(tasks)
    /\ UNCHANGED <<pool_func, initargs, accVars, pipeVars, workerVars, trajVars, chunkVars>>

\* a process that has run its initializer takes the next item and calls the
\* worker function, lines 125-127 and 190-192, on its globals
ServeTask ==
    /\ tasks # <<>>
    /\ \E w \in DOMAIN procs :
          /\ procs[w].loads > 0
          /\ procs' = [procs EXCEPT ![w] = [@ EXCEPT !.served = Append(@, Head(tasks))]]
          /\ map_results' = Append(map_results,
                [item |-> Head(tasks), by |-> w,
                 result |-> worker_func(LevelOf(pool_func), Head(tasks),
                                read_parquet_works(Get(procs[w].g_works)),
                                read_parquet_journals(Get(procs[w].g_journals)),
                                initargs[1], initargs[2])])
    /\ tasks' = Tail(tasks)
    /\ UNCHANGED <<pool_func, initargs, accVars, pipeVars, workerVars, trajVars, chunkVars>>

\* line 274: pool.map has every result, the with statement ends the Pool
PoolClose ==
    /\ procs # <<>> /\ tasks = <<>>
    /\ procs' = <<>>
    /\ UNCHANGED <<pool_func, initargs, tasks, map_results,
                   accVars, pipeVars, workerVars, trajVars, chunkVars>>

NextPool ==
    \/ IngestVenue \/ IngestWork
    \/ PoolCreate \/ RunInitWorker \/ ServeTask \/ PoolClose

PoolSpec == InitPool /\ [][NextPool]_vars

(***************************************************************************)
(* process_trajectories.main: the state machine                            *)
(***************************************************************************)
InitTraj ==
    /\ InitAccIdle /\ PipeIdle /\ WorkerIdle /\ ChunkIdle /\ PoolIdle
    /\ traj_in \in [lens : [Range(TrajSeries) -> SeriesLengths], meta : MetaKinds,
                    gap : GapEntities, order : {"asc", "desc"}, scipy : BOOLEAN]
    /\ tpc = "start" /\ raw_data = None
    /\ smoothed = <<>> /\ smoothed_w5 = <<>>
    /\ map_countries = None /\ map_journals = None
    /\ todo = <<>> /\ all_journal_coords = <<>> /\ projected = {}

\* lines 157-160
LoadAndPrep ==
    /\ tpc = "start"
    /\ raw_data' = load_and_prep_data(traj_in)
    /\ tpc' = IF raw_data' = None \/ Get(raw_data') = <<>> THEN "done" ELSE "loaded"
    /\ UNCHANGED <<traj_in, smoothed, smoothed_w5, map_countries, map_journals, todo,
                   all_journal_coords, projected, accVars, pipeVars, workerVars, chunkVars, poolVars>>

\* lines 162-173: both smoothings, the three base tables are saved
Smooth ==
    /\ tpc = "loaded"
    /\ smoothed' = apply_smoothing(Get(raw_data), 3, traj_in.scipy)
    /\ smoothed_w5' = apply_smoothing(Get(raw_data), 5, traj_in.scipy)
    /\ tpc' = "global"
    /\ UNCHANGED <<traj_in, raw_data, map_countries, map_journals, todo,
                   all_journal_coords, projected, accVars, pipeVars, workerVars, chunkVars, poolVars>>

\* lines 176-196: the global map; run_umap_projection returns None when umap
\* is not installed or the fit fails
GlobalMap ==
    /\ tpc = "global"
    /\ LET valid_data == dropna(smoothed)
           points == countries_data(valid_data)
       IN /\ IF GlobalProjected(points)
             THEN /\ projected' = projected \cup {"global"}
                  /\ \E ok \in BOOLEAN :
                        map_countries' = IF ok THEN Some(Coords(points)) ELSE map_countries
             ELSE UNCHANGED <<projected, map_countries>>
          /\ todo' = countries_of(valid_data)
    /\ tpc' = "local"
    /\ UNCHANGED <<traj_in, raw_data, smoothed, smoothed_w5, map_journals,
                   all_journal_coords, accVars, pipeVars, workerVars, chunkVars, poolVars>>

\* lines 198-219: one iteration of the loop over the countries
LocalMap ==
    /\ tpc = "local"
    /\ todo # <<>>
    /\ LET country == Head(todo)
           subset == local_subset(dropna(smoothed), country)
       IN IF LocalSkipped(subset)
          THEN UNCHANGED <<projected, all_journal_coords>>
          ELSE /\ projected' = projected \cup {country}
               /\ \E ok \in BOOLEAN :
                     all_journal_coords' =
                        IF ok
                        THEN Append(all_journal_coords,
                                    [i \in DOMAIN subset |->
                                        update(Coords(subset)[i], [map_context |-> country])])
                        ELSE all_journal_coords
    /\ todo' = Tail(todo)
    /\ UNCHANGED <<traj_in, tpc, raw_data, smoothed, smoothed_w5, map_countries, map_journals,
                   accVars, pipeVars, workerVars, chunkVars, poolVars>>

\* lines 221-224
SaveLocalMaps ==
    /\ tpc = "local"
    /\ todo = <<>>
    /\ map_journals' = IF all_journal_coords # <<>> THEN Some(Flatten(all_journal_coords))
                       ELSE map_journals
    /\ tpc' = "done"
    /\ UNCHANGED <<traj_in, raw_data, smoothed, smoothed_w5, map_countries, todo,
                   all_journal_coords, projected, accVars, pipeVars, workerVars, chunkVars, poolVars>>

NextTraj == LoadAndPrep \/ Smooth \/ GlobalMap \/ LocalMap \/ SaveLocalMaps

TrajSpec == InitTraj /\ [][NextTraj]_vars

(***************************************************************************)
(* Properties                                                              *)
(***************************************************************************)
\* the cell of a row as the DataFrame shows it: missing when the column is absent
Cell(k, col) ==
    IF col \in schema THEN ArticleRows[k][col]
    ELSE IF col # "oa_status" THEN NaN
    ELSE IF mode = "scan" /\ "open_access" \in schema
         THEN (IF ArticleRows[k].oa_status = "null" THEN "closed"
               ELSE ArticleRows[k].oa_status)
         ELSE "null"

\* the sum of val[k] over the rows fed so far
RECURSIVE FedSum(_, _)
FedSum(val, k) == IF k = 0 THEN 0 ELSE fed[k] * val[k] + FedSum(val, k - 1)

NumericOrZero(x) == IF x >= 0 THEN x ELSE 0

FedFwci ==
    FedSum([k \in Kinds |-> NumericOrZero(Cell(k, "fwci"))], Len(ArticleRows))
FedPercentile ==
    FedSum([k \in Kinds |-> NumericOrZero(Cell(k, "citation_normalized_percentile"))],
           Len(ArticleRows))
FedTop10 ==
    FedSum([k \in Kinds |-> IF Cell(k, "is_in_top_10_percent") = 1 THEN 1 ELSE 0],
           Len(ArticleRows))
FedTop1 ==
    FedSum([k \in Kinds |-> IF Cell(k, "is_in_top_1_percent") = 1 THEN 1 ELSE 0],
           Len(ArticleRows))
FedStatus(s) ==
    FedSum([k \in Kinds |-> IF Cell(k, "oa_status") = s THEN 1 ELSE 0], Len(ArticleRows))

OAFields == {"pct_oa_gold", "pct_oa_diamond", "pct_oa_green", "pct_oa_hybrid",
             "pct_oa_bronze", "pct_oa_closed"}

DerivedFields == {"fwci_avg", "avg_percentile", "pct_top_10", "pct_top_1"} \cup OAFields

OASum(rec) == rec.pct_oa_gold + rec.pct_oa_diamond + rec.pct_oa_green
              + rec.pct_oa_hybrid + rec.pct_oa_bronze + rec.pct_oa_closed

\* C1: whatever the partition of the rows into batches (the add_batch calls
\* of a direct caller, in any order; the chunk_size of a scan), get_metrics
\* returns the record of one add_batch over all the rows.
C1_BatchPartitionIrrelevant ==
    /\ mode = "direct" => get_metrics(acc) = get_metrics(add_batch(reset, AllFed))
    /\ (mode = "scan" /\ calls = 1) => last = get_metrics(add_batch(reset, WholeTable))

\* a scan of three matching rows read one row at a time has returned
C1_Witness ==
    /\ mode = "scan" /\ calls = 1 /\ chunk_size = 1
    /\ Len(table) = 3 /\ last.num_documents = 3

\* C2: a row with a missing or non-numeric FWCI (percentile) counts as a
\* document and adds 0 to the sum, so both averages are the sum of the numeric
\* values over the number of all rows, in the accumulator and in the
\* in-memory aggregator.
C2_MissingCountsAsZero ==
    mode = "direct" =>
        /\ acc.count = FedCount
        /\ acc.fwci_sum = FedFwci
        /\ acc.percentile_sum = FedPercentile
        /\ (last # NoRecord /\ FedCount > 0) =>
              /\ last.num_documents = FedCount
              /\ last.fwci_avg = RoundDiv(FedFwci, FedCount)
              /\ last.avg_percentile = RoundDiv(FedPercentile * 100, FedCount)
        /\ (dfrec # NoRecord /\ FedCount > 0) =>
              /\ dfrec.num_documents = FedCount
              /\ dfrec.fwci_avg = RoundDiv(FedFwci * 10000, FedCount)
              /\ dfrec.avg_percentile = RoundDiv(FedPercentile * 1000000, FedCount)

\* both aggregators have produced a record over a numeric row, a row with
\* every cell missing and a row with a non-numeric FWCI
C2_Witness ==
    /\ mode = "direct" /\ schema = AllColumns
    /\ fed[1] = 1 /\ fed[4] = 1 /\ fed[5] = 1 /\ FedCount = 3
    /\ last # NoRecord /\ dfrec # NoRecord

\* C3: with zero matching documents the record has num_documents = 0 and
\* every derived field 0; nothing is divided by the zero count.
C3_ZeroDocuments ==
    /\ (last # NoRecord /\ FedCount = 0) =>
          /\ last.num_documents = 0
          /\ \A k \in DerivedFields : k \in DOMAIN last /\ last[k] = 0
    /\ (dfrec # NoRecord /\ FedCount = 0) =>
          /\ dfrec.num_documents = 0
          /\ \A k \in DerivedFields : k \in DOMAIN dfrec /\ dfrec[k] = 0

\* a scan of a non-empty table whose filter matched no row has returned
C3_Witness ==
    /\ mode = "scan" /\ calls = 1 /\ Len(table) >= 2 /\ FedCount = 0
    /\ last.num_documents = 0

\* C4: for n > 0 rows the record has num_documents = n and every derived
\* field is the matching sum or count over n (percentages times 100),
\* rounded to 2 decimals; Scenario A gives 3, 1.33, 66.33, 66.67, 33.33 and
\* the OA shares 66.67 gold, 33.33 closed, 0 elsewhere.
C4_CountIsDenominator ==
    /\ (last # NoRecord /\ FedCount > 0) =>
          /\ last.num_documents = FedCount
          /\ last.fwci_avg = RoundDiv(FedFwci, FedCount)
          /\ last.avg_percentile = RoundDiv(FedPercentile * 100, FedCount)
          /\ last.pct_top_10 = RoundDiv(FedTop10 * 10000, FedCount)
          /\ last.pct_top_1 = RoundDiv(FedTop1 * 10000, FedCount)
          /\ last.pct_oa_gold = RoundDiv(FedStatus("gold") * 10000, FedCount)
          /\ last.pct_oa_diamond = RoundDiv(FedStatus("diamond") * 10000, FedCount)
          /\ last.pct_oa_green = RoundDiv(FedStatus("green") * 10000, FedCount)
          /\ last.pct_oa_hybrid = RoundDiv(FedStatus("hybrid") * 10000, FedCount)
          /\ last.pct_oa_bronze = RoundDiv(FedStatus("bronze") * 10000, FedCount)
          /\ last.pct_oa_closed = RoundDiv(FedStatus("closed") * 10000, FedCount)
    /\ (mode = "direct" /\ last # NoRecord /\ schema = AllColumns
        /\ fed = [k \in Kinds |-> IF k \in {1, 2, 3} THEN 1 ELSE 0]) =>
          last = [num_documents |-> 3, fwci_avg |-> 133, avg_percentile |-> 6633,
                  pct_top_10 |-> 6667, pct_top_1 |-> 3333,
                  pct_oa_gold |-> 6667, pct_oa_closed |-> 3333, pct_oa_diamond |-> 0,
                  pct_oa_green |-> 0, pct_oa_hybrid |-> 0, pct_oa_bronze |-> 0]

\* get_metrics has returned the record of the three rows of Scenario A
C4_Witness ==
    /\ mode = "direct" /\ schema = AllColumns /\ last # NoRecord
    /\ fed = [k \in Kinds |-> IF k \in {1, 2, 3} THEN 1 ELSE 0]

\* C5 as stated: the six rounded open-access percentages of a record sum to
\* at most 100.
C5_RoundedSumAtMost100 ==
    last # NoRecord => OASum(last) <= 10000

\* C5 as amended: the six status counts sum to at most the document count, so
\* the exact percentages sum to at most 100; the six rounded percentages of a
\* record sum to at most 100.03.
C5_CountsBoundedRoundedSumNear100 ==
    /\ acc.oa_counts["gold"] + acc.oa_counts["diamond"] + acc.oa_counts["green"]
         + acc.oa_counts["hybrid"] + acc.oa_counts["bronze"] + acc.oa_counts["closed"]
       <= acc.count
    /\ last # NoRecord => OASum(last) <= 10003

\* a record whose six rounded percentages sum to more than 100
C5_Witness ==
    /\ last # NoRecord /\ OASum(last) > 10000

\* C6: get_metrics leaves the accumulator as it found it: a call changes no
\* field, a repeated call returns the same record, and the accumulator always
\* holds exactly what the add_batch calls put in, however many get_metrics
\* calls came in between.
C6_GetMetricsReadOnly ==
    /\ [][calls' > calls => (acc' = acc /\ (calls > 0 => last' = last))]_vars
    /\ [](mode = "direct" => acc = add_batch(reset, AllFed))

\* get_metrics has been called twice in a row on a non-empty accumulator, and
\* rows were added after an earlier call
C6_Witness ==
    /\ mode = "direct" /\ calls = 2 /\ acc.count >= 2 /\ last.num_documents = acc.count

\* the states of a run in which the pending list of the level is in force
Selected == pc \in {"selected", "map", "chunks", "write_annual", "write_period",
                    "write_recent"}

\* C7: get_items_to_process returns all items when force is set or no cached
\* table exists, otherwise exactly the items whose id is not in the id column
\* of the cached table, in their original order.
C7_PendingSelection ==
    Selected =>
        IF force \/ existing[2] = None
        THEN pending = items
        ELSE /\ Range(pending) =
                  {x \in Range(items) :
                     \A i \in DOMAIN Get(existing[2]) :
                        Get(existing[2])[i][id_column(level)] # x}
             /\ \A i, j \in DOMAIN pending :
                  i < j => Position(items, pending[i]) < Position(items, pending[j])

\* a run without --force found some countries in the cached period table and
\* selected only the others
C7_Witness ==
    /\ pc = "selected" /\ level = "country" /\ ~force /\ existing[2] # None
    /\ pending # <<>> /\ Len(pending) < Len(items)
    /\ \E i \in DOMAIN Get(existing[2]) :
          Get(existing[2])[i].country_code \in Range(items) \ Range(pending)

EntityTables == {"country_annual", "country_period", "country_period_recent",
                 "journal_annual", "journal_period", "journal_period_recent"}

\* the key of a cache row: the entity id and the year or the period label
KeyOf(row) ==
    << IF "country_code" \in DOMAIN row THEN row.country_code ELSE row.journal_id,
       IF "year" \in DOMAIN row THEN <<row.year>> ELSE row.period >>

\* C8: every country and journal cache table holds at most one row per
\* (entity id, year or period label).
C8_OneRowPerEntityScope ==
    \A f \in EntityTables :
        cache[f] # None =>
            \A i, j \in DOMAIN Get(cache[f]) :
                KeyOf(Get(cache[f])[i]) = KeyOf(Get(cache[f])[j]) => i = j

\* a run without --force has appended new entities to tables that already
\* held others
C8_Witness ==
    /\ pc = "select" /\ level = "journal" /\ ~force
    /\ existing[1] # None /\ existing[2] # None /\ existing[3] # None
    /\ lists[2] # <<>>
    /\ Len(Get(cache["country_annual"])) = Len(Get(existing[1])) + Len(Flatten(lists[1]))
    /\ Len(Get(cache["country_period"])) = Len(Get(existing[2])) + Len(lists[2])
    /\ Len(Get(cache["country_period_recent"])) = Len(Get(existing[3])) + Len(lists[3])

\* two tables hold the same rows, whatever their order
SameRows(a, b) ==
    IF a = None \/ b = None THEN a = b
    ELSE /\ Len(Get(a)) = Len(Get(b))
         /\ \A i \in DOMAIN Get(a) :
              Cardinality({j \in DOMAIN Get(a) : Get(a)[j] = Get(a)[i]})
                = Cardinality({j \in DOMAIN Get(b) : Get(b)[j] = Get(a)[i]})

\* C9: a run without --force that follows a run without --force on unchanged
\* input tables changes the rows of no cache table.
C9_SecondRunLeavesCache ==
    [][(pc # "idle" /\ ~force /\ prevPlain /\ ~changed) =>
          \A f \in CacheFiles : SameRows(cache'[f], cache[f])]_vars

\* the second of two runs without --force on unchanged inputs has gone
\* through the country level with a populated cache
C9_Witness ==
    /\ pc = "selected" /\ level = "journal" /\ ~force /\ prevPlain /\ ~changed
    /\ cache["country_period"] # None /\ cache["country_annual"] # None

\* C10 as stated: in the second of two consecutive runs without --force on
\* unchanged inputs the pending list is empty at every level.
C10_SecondRunSelectsNothing ==
    (pc = "selected" /\ ~force /\ prevPlain /\ ~changed) => pending = <<>>

\* the years of the rows of an annual table, in row order
YearsOf(rows) == [i \in DOMAIN rows |-> rows[i].year]

\* C11: a worker that produces a result returns an annual table with exactly
\* one row for each year of start_year..end_year, the years without matching
\* documents included, and one period record for the full range and one for
\* 2021-2025.
C11_OneRowPerYearAndPeriod ==
    \A i \in DOMAIN results :
        results[i][1] # None =>
            /\ results[i][2] # None /\ results[i][3] # None /\ results[i][4] # None
            /\ YearsOf(Get(results[i][2])) =
                  [k \in 1..(years[2] - years[1] + 1) |-> years[1] + k - 1]
            /\ Get(results[i][3]).period = <<years[1], years[2]>>
            /\ Get(results[i][4]).period = <<RecentStart, RecentEnd>>

\* a worker has returned the tables of an entity that has no document in one
\* year of a two-year range
C11_Witness ==
    /\ pc = "chunks" /\ years[1] < years[2]
    /\ \E i \in DOMAIN results :
          /\ results[i][1] # None
          /\ \E k \in DOMAIN Get(results[i][2]) : Get(results[i][2])[k].num_documents = 0

\* C12 as stated: an entity without matching articles is computed like any
\* other, so once a run is through the country level every country of the
\* venue file has its row in the country period table.
C12_ZeroArticleEntityCached ==
    (pc = "select" /\ level = "journal") =>
        /\ cache["country_period"] # None
        /\ \A c \in Range(items) : c \in IdsOf(cache["country_period"], "country_code")

\* the country of the call has a venue in the venue table
HasVenue(country_code) == \E v \in journals : VenueRows[v].country_code = country_code

\* the period record of the tuple a per-country function returned
PeriodOf(c, r) == IF c.fn = "calculate_country_metrics_chunked" THEN r[2] ELSE r[3]

\* C13 as stated: a per-country function called for a country code without
\* venues returns a period record with num_journals = 0 and the three indexing
\* percentages 0.
C13_ZeroVenueCountryRecord ==
    (call # None /\ Get(call).fn \in CountryFunctions /\ ~HasVenue(Get(call).id)) =>
        /\ PeriodOf(Get(call), ret) # None
        /\ Get(PeriodOf(Get(call), ret)).num_journals = 0
        /\ Get(PeriodOf(Get(call), ret)).pct_scopus = 0
        /\ Get(PeriodOf(Get(call), ret)).pct_core = 0
        /\ Get(PeriodOf(Get(call), ret)).pct_doaj = 0

\* C14 as stated: when a worker has raised, every other pending entity of the
\* level that has a result is persisted in the period table of the level.
C14_OtherEntitiesPersisted ==
    exit = "worker_error" =>
        \A i \in DOMAIN pending :
            (pending[i] \notin failed
             /\ worker_func(level, pending[i], works_df, journals_df,
                            years[1], years[2])[1] # None) =>
                /\ cache[FileOf(level, "period")] # None
                /\ pending[i] \in IdsOf(cache[FileOf(level, "period")], id_column(level))

CountryTables == {"country_annual", "country_period", "country_period_recent"}

\* C15 as stated: once a run has been killed, a run without --force on the
\* same inputs leaves the country tables as one uninterrupted run would: every
\* country with a result is in each table and no (entity, scope) row is there twice.
C15_RestartRestoresCache ==
    (fault = "kill" /\ pc = "select" /\ level = "journal" /\ ~force /\ ~changed) =>
        \A f \in CountryTables :
            /\ \A c \in Range(items) :
                  worker_func("country", c, works_df, journals_df, years[1], years[2])[1] # None
                  => (cache[f] # None /\ c \in IdsOf(cache[f], "country_code"))
            /\ cache[f] # None =>
                  \A i, j \in DOMAIN Get(cache[f]) :
                      KeyOf(Get(cache[f])[i]) = KeyOf(Get(cache[f])[j]) => i = j

\* C16: a run started without the article file or without the venue file
\* ends at once with exit status 1: no table is loaded (no year range), no
\* pool is started, nothing is computed and no cache table is written.
C16_MissingInputExits1 ==
    [][(runs' = runs + 1 /\ (present # InputFiles)) =>
          /\ pc' = "idle" /\ exit' = "1"
          /\ cache' = cache /\ pool' = None /\ results' = <<>>
          /\ years' = <<0, 0>> /\ pending' = <<>>]_vars

\* a run has ended with status 1 while exactly one of the two files was there
C16_Witness ==
    /\ exit = "1" /\ pc = "idle" /\ runs >= 1
    /\ present = {"journals"} /\ cache = EmptyCache

\* C17 as stated: an unreadable batch is skipped, so no exception of a batch
\* ever leaves the scan.
C17_UnreadableBatchSkipped ==
    mode = "scan" => ~scan_error

\* the rows of a table with a given id and year
RowsAt(rows, id, year) == {i \in DOMAIN rows : rows[i].id = id /\ rows[i].year = year}

\* the columns of a row that are not metrics
NonMetric(row) == [f \in DOMAIN row \ Range(METRICS_COLS) |-> row[f]]

\* C18, for one smoothed table: as many rows as the input, one per input
\* (entity, year); the non-metric columns are those of the input row; a cell
\* with an observation in the input is smoothed to a value, at the ends of a
\* series too.
SmoothedRowForRow(out) ==
    /\ Len(out) = Len(Get(raw_data))
    /\ \A i \in DOMAIN Get(raw_data) :
          LET r == Get(raw_data)[i]
          IN /\ Cardinality(RowsAt(out, r.id, r.year)) = 1
             /\ \A p \in RowsAt(out, r.id, r.year) :
                   /\ NonMetric(out[p]) = NonMetric(r)
                   /\ \A c \in Range(METRICS_COLS) : r[c] # NaN => out[p][c] # NaN

\* C18: apply_smoothing outputs one row per input (entity, year) for window
\* sizes 3 and 5, N rows for an entity with N annual rows; the rows at the
\* start and the end of a series are smoothed over a shrunken window, not
\* dropped, and the non-metric columns are unchanged.
C18_SmoothingKeepsEveryRow ==
    tpc \in {"global", "local", "done"} /\ raw_data # None =>
        SmoothedRowForRow(smoothed) /\ SmoothedRowForRow(smoothed_w5)

\* both windows have smoothed tables in which one entity has MaxYears rows and
\* another has fewer rows than the wider window
C18_Witness ==
    /\ tpc = "global"
    /\ traj_in.lens["V1"] = MaxYears /\ traj_in.lens["AR"] = MaxYears - 1
    /\ traj_in.order = "desc"
    /\ Len(smoothed_w5) = Len(Get(raw_data)) /\ Len(smoothed) >= 2 * MaxYears - 1

\* the points of the local map of a country written to the file
LocalPoints(country) ==
    IF map_journals = None THEN <<>>
    ELSE SelectSeq(Get(map_journals), LAMBDA r : r.map_context = country)

\* C19 as stated: a map context with fewer than 10 points is not projected
\* and gets no point, one with 10 points or more is projected, for the global
\* map and for the local maps alike.
C19_TenPointThreshold ==
    (tpc = "done" /\ raw_data # None) =>
        /\ IF Len(countries_data(dropna(smoothed))) < 10
           THEN "global" \notin projected /\ map_countries = None
           ELSE "global" \in projected
        /\ \A c \in Range(countries_of(dropna(smoothed))) :
              IF Len(local_subset(dropna(smoothed), c)) < 10
              THEN c \notin projected /\ LocalPoints(c) = <<>>
              ELSE c \in projected

\* C20: the global map holds points of countries and of the region only; a
\* point of the local map of country C is a venue whose country code in the
\* venue file is C, or C itself.
C20_MapMembership ==
    /\ map_countries # None =>
          \A i \in DOMAIN Get(map_countries) :
              Get(map_countries)[i].type \in {"country", "region"}
    /\ map_journals # None =>
          \A i \in DOMAIN Get(map_journals) :
              LET r == Get(map_journals)[i]
              IN \/ /\ r.type = "journal"
                    /\ r.country_code = r.map_context
                    /\ \E v \in DOMAIN VenueRows :
                          VenueRows[v].id = r.id /\ VenueRows[v].country_code = r.map_context
                 \/ /\ r.type = "country"
                    /\ r.id = r.map_context

\* the run is over with a global map and with a local map that holds venue
\* points and the point of their country
C20_Witness ==
    /\ tpc = "done" /\ map_countries # None /\ map_journals # None
    /\ \E i, j \in DOMAIN Get(map_journals) :
          /\ Get(map_journals)[i].type = "journal"
          /\ Get(map_journals)[j].type = "country"
          /\ Get(map_journals)[i].map_context = Get(map_journals)[j].map_context

\* C21 as stated: a reader returns None for a file that does not exist and
\* never raises, whether the file is absent or present but unreadable.
C21_ReadersNeverRaise ==
    (call # None /\ Get(call).fn \in Readers) =>
        /\ ~ret.raised
        /\ cache[Get(call).id] = None => ret.value = None

\* the results of the first n pending items, in the order of the items
ResultsOfFirst(n) ==
    [i \in 1..n |->
        worker_func(level, pending[i], works_df, journals_df, years[1], years[2])]

\* the state of the loop of process_in_chunks between two steps
ChunksInOrder ==
    pc \in {"map", "chunks"} =>
        LET done == Min(offset, Len(pending))
        IN /\ results = ResultsOfFirst(done)
           /\ pc = "map" =>
                /\ pool # None
                /\ Get(pool) = SubSeq(pending, offset + 1,
                        Min(offset + ChunkSize(level, Len(pending)), Len(pending)))
                /\ Get(pool) # <<>>
           /\ pc = "chunks" => pool = None

\* C22: the chunks are processed one after the other.  A Pool is created
\* only when no Pool is alive and every earlier chunk has returned; the Pool
\* of a chunk holds the next chunk_size items; the chunks partition the item
\* list, so that the results are one per item, in the order of the items.
C22_SequentialChunks ==
    /\ [](pool # None => pc = "map")
    /\ []ChunksInOrder
    /\ [][(pool' # None /\ pool' # pool) =>
            (pool = None /\ Len(results) = offset /\ results' = results)]_vars
    /\ [][(pc = "chunks" /\ pc' \notin {"chunks", "map"}) =>
            (pool = None /\ results = ResultsOfFirst(Len(pending)))]_vars

\* the Pool of a third chunk is alive
C22_Witness == pool # None /\ offset >= 2 /\ Len(results) = offset

\* the result of an item computed on the tables a process holds
OnGlobals(w, item) ==
    worker_func(LevelOf(pool_func), item,
                read_parquet_works(Get(procs[w].g_works)),
                read_parquet_journals(Get(procs[w].g_journals)),
                initargs[1], initargs[2])

\* C23: a process of the Pool reads the article table and the venue table
\* exactly once, in its initializer and before it computes any entity; every
\* entity it is given is computed on that copy, which is never read again.
C23_LoadOncePerWorker ==
    /\ [](\A w \in DOMAIN procs :
            /\ procs[w].loads <= 1
            /\ procs[w].served # <<>> => procs[w].loads = 1)
    /\ [](procs # <<>> =>
            \A i \in DOMAIN map_results :
                map_results[i].result = OnGlobals(map_results[i].by, map_results[i].item))
    /\ [][\A w \in DOMAIN procs :
            (procs[w].loads = 1 /\ w \in DOMAIN procs') =>
                /\ procs'[w].g_works = procs[w].g_works
                /\ procs'[w].g_journals = procs[w].g_journals]_vars

\* a process has served two entities from its copy while the article file
\* has changed since the copy was read
C23_Witness ==
    \E w \in DOMAIN procs :
        /\ Len(procs[w].served) >= 2
        /\ procs[w].g_works # Some(works)

\* C24 as stated: the results are committed chunk by chunk, so that while the
\* Pool of chunk k+1 is alive every result of the chunks 1..k is in the cache
\* table of the level and a crash at that point loses none of them.
C24_ChunksCommitted ==
    (pc = "map" /\ offset > 0) =>
        \A i \in 1..offset :
            results[i][3] # None =>
                /\ cache[FileOf(level, "period")] # None
                /\ Get(results[i][1]) \in IdsOf(cache[FileOf(level, "period")], id_column(level))

\* the steps of main that write cache tables
WriteSteps == {"latam", "write_annual", "write_period", "write_recent"}

\* C25: a cache table changes only in a step of main, the orchestrator, and
\* only while no Pool is alive; no step taken while a Pool is alive, the
\* workers' computation included, changes a cache table.
C25_OnlyOrchestratorWrites ==
    [][cache' # cache => (pool = None /\ pool' = None /\ pc \in WriteSteps)]_vars

\* a table of the level has been written after two Pools have come and gone
C25_Witness ==
    /\ pc = "write_period" /\ offset >= 2 /\ pool = None
    /\ cache[FileOf(level, "annual")] # None

\* C26 as stated: for every n >= 1 the loop runs at most 5 chunks for the
\* countries and at most 21 chunks for the venues.
C26_AtMost5And21Chunks ==
    /\ desc = "countries" => chunk_num <= 5
    /\ desc = "journals" => chunk_num <= 21

\* C26, amended: for every n >= 1 the loop runs at most 7 chunks for the
\* countries, and more than 5 only for n = 6, 7 and 11; it runs at most 22
\* chunks for the venues, and more than 21 only for some n in 211..379.
C26_AtMost7And22Chunks ==
    /\ desc = "countries" =>
          /\ chunk_num <= 7
          /\ total_items \notin {6, 7, 11} => chunk_num <= 5
    /\ desc = "journals" =>
          /\ chunk_num <= 22
          /\ total_items \notin 211..379 => chunk_num <= 21

\* the loop over 219 venues has ended after 22 chunks
C26_Witness ==
    /\ desc = "journals" /\ total_items = 219
    /\ chunk_i >= total_items /\ chunk_num = 22

\* the field k has the same value in the record of the accumulator, kept in
\* hundredths, and in the record of the in-memory aggregator, kept in millionths
SameValue(k) ==
    IF k = "num_documents" \/ last[k] < 0 \/ dfrec[k] < 0
    THEN dfrec[k] = last[k]
    ELSE dfrec[k] = last[k] * 10000

\* C27 as stated: for the same rows calculate_performance_metrics_from_df
\* returns a record with the fields of the record of MetricsAccumulator
\* (add_batch, then get_metrics) and the same value in every field.
C27_AggregatorsAgree ==
    (mode = "direct" /\ last # NoRecord /\ dfrec # NoRecord) =>
        /\ DOMAIN dfrec = DOMAIN last
        /\ \A k \in DOMAIN dfrec \cap DOMAIN last : SameValue(k)

\* C28 as stated: the collection loop consumes every result tuple of the
\* journal level without error, so that a run with a pending journal ends with
\* exit status 0 and every journal with a result is in the three journal tables.
C28_JournalResultsCollected ==
    (pc = "idle" /\ level = "journal" /\ pending # <<>>) =>
        /\ exit = "0"
        /\ \A i \in DOMAIN results :
              results[i][1] # None =>
                \A f \in {"journal_annual", "journal_period", "journal_period_recent"} :
                    /\ cache[f] # None
                    /\ Get(results[i][1]) \in IdsOf(cache[f], "journal_id")

\* the entity ids of a cache table, none for an absent table
IdsIn(f) == IF cache[f] = None THEN {} ELSE IdsOf(cache[f], id_column(LevelOf_file(f)))

\* C29 as stated: after a completed run, whatever tables the cache held when
\* the runs began, the annual, the period and the recent-period table of a
\* level hold the same set of entity ids.
C29_SameIdsInThreeTables ==
    (pc = "idle" /\ exit = "0") =>
        /\ IdsIn("country_annual") = IdsIn("country_period")
        /\ IdsIn("country_period") = IdsIn("country_period_recent")
        /\ IdsIn("journal_annual") = IdsIn("journal_period")
        /\ IdsIn("journal_period") = IdsIn("journal_period_recent")

\* the positions of the period records in the tuple a per-entity function returns
PeriodPositions(fn) ==
    IF fn \in {"process_country_worker", "process_journal_worker"} THEN {3, 4} ELSE {2}

\* the articles of the entity of a call that were published in the years lo..hi
DocsOfEntity(c, lo, hi) ==
    {w \in works :
        /\ ArticleRows[w].publication_year >= lo
        /\ ArticleRows[w].publication_year <= hi
        /\ IF c.fn \in CountryFunctions
           THEN \E v \in journals : /\ VenueRows[v].country_code = c.id
                                    /\ VenueRows[v].id = ArticleRows[w].journal_id
           ELSE ArticleRows[w].journal_id = c.id}

\* C30 as stated: a period record labelled A-B aggregates the documents of
\* its entity published in the years A..B and no others, whichever function
\* computed it.
C30_PeriodLabelIsWindow ==
    (call # None /\ Get(call).fn \in CountryFunctions \cup JournalFunctions) =>
        \A p \in PeriodPositions(Get(call).fn) :
            ret[p] # None =>
                Get(ret[p]).num_documents =
                    Cardinality(DocsOfEntity(Get(call), Get(ret[p]).period[1],
                                             Get(ret[p]).period[2]))

====
